---- MODULE Spec2Model ----
(***************************************************************************)
(* Model of the event-visibility core of krwl-hof:                         *)
(*   EventFilter      (assets/js/filters.js)                               *)
(*   SpeechBubbles    (assets/js/speech-bubbles-complex.js,                *)
(*                     assets/js/speech-bubbles.js) - deduplication        *)
(*   EventStorage     (assets/js/storage.js) - bookmark membership         *)
(*   EventUtils       (assets/js/app-refactored.js) - template events      *)
(*                                                                         *)
(* A Date is its getTime() value in whole seconds since 1970-01-01T00:00Z. *)
(* Local calendar fields are taken in a fixed-offset zone (TzOffsetHours). *)
(* Reals are fixed-point: trigonometric values in thousandths, distances   *)
(* in whole kilometres.                                                    *)
(***************************************************************************)
EXTENDS Integers, Sequences, FiniteSets, TLC

VARIABLES
    now,                \* the global clock read by `new Date()`
    storedEvents,       \* the event records as the acquisition layer supplied them
    events,             \* the caller's event objects (the array handed to EventFilter)
    bookmarks,          \* EventStorage.bookmarks
    filters,            \* the filters object {timeFilter, maxDistance, category}
    referenceLocation,  \* {lat, lon} or NoLocation
    op,                 \* the operation that ran last
    filtered,           \* return value of filterEvents: references (indices) into events
    categoryCounts,     \* return value of countCategoriesUnderFilters
    eventItems,         \* argument of SpeechBubbles.deduplicateEvents
    uniqueItems,        \* return value of deduplicateEvents (title+start key)
    titleItems,         \* return value of deduplicateEvents (title-only variant)
    timeFilter,         \* argument of getMaxEventTime in the boundary specification
    boundary,           \* return value of getMaxEventTime in the boundary specification
    templateEvents,     \* argument of EventUtils.processTemplateEvents
    processedEvents,    \* return value of processTemplateEvents
    localStorage,       \* window.localStorage: the items stored under their keys
    lastCall,           \* the last call on the EventStorage: name, argument, return value
    distanceCall,       \* the two points handed to calculateDistance and what it returned
    timeDrawer,         \* the TimeDrawer object, the elements it has in document.body, its pending timeouts
    dashboard,          \* the dashboard menu, the focus, the focus-trap listener and the openDashboard / closeDashboard calls awaiting
    dropdowns           \* the CustomDropdown instances of the filter bar, the dropdown elements in document.body and the filters their selections set

vars == <<now, storedEvents, events, bookmarks, filters, referenceLocation, op,
          filtered, categoryCounts, eventItems, uniqueItems, titleItems,
          timeFilter, boundary, templateEvents, processedEvents,
          localStorage, lastCall,
          distanceCall,
          timeDrawer,
          dashboard,
          dropdowns>>

-----------------------------------------------------------------------------
(* Bounds of the model *)

\* the local zone is UTC + TzOffsetHours
TzOffsetHours == 2
\* longest event list handed to filterEvents
MaxEvents == 2
\* longest item list handed to deduplicateEvents
MaxItems == 3
\* the boundary specification reads the clock on days 0..MaxDay after ClockBase
MaxDay == 90
\* longest event list handed to processTemplateEvents
MaxTemplates == 2
\* most calls made on one EventStorage after the page is first loaded
MaxCalls == 3
\* most elements one TimeDrawer, or the dropdowns of one page, create
MaxElements == 3
\* most timeouts of one kind pending at a time
MaxPending == 2

-----------------------------------------------------------------------------
(* JavaScript values *)

Undefined == "undefined"
NoLocation == [lat |-> 999, lon |-> 999]
NoDistance == -1
NoTime == -1

Truthy(location) == location # NoLocation

-----------------------------------------------------------------------------
(* Date arithmetic *)

SecPerMin == 60
SecPerHour == 3600
SecPerDay == 86400

TzOffsetSec == TzOffsetHours * SecPerHour

\* days since 1970-01-01 of the civil date y-m-d (m = 1..12)
DaysFromCivil(y, m, d) ==
    LET yy == IF m <= 2 THEN y - 1 ELSE y
        era == yy \div 400
        yoe == yy - era * 400
        mp == IF m > 2 THEN m - 3 ELSE m + 9
        doy == (153 * mp + 2) \div 5 + d - 1
        doe == yoe * 365 + yoe \div 4 - yoe \div 100 + doy
    IN era * 146097 + doe - 719468

\* civil year of the day z (days since 1970-01-01)
YearFromDays(z) ==
    LET zz == z + 719468
        era == zz \div 146097
        doe == zz - era * 146097
        yoe == (doe - doe \div 1460 + doe \div 36524 - doe \div 146096) \div 365
        doy == doe - (365 * yoe + yoe \div 4 - yoe \div 100)
        mp == (5 * doy + 2) \div 153
        m == IF mp < 10 THEN mp + 3 ELSE mp - 9
    IN yoe + era * 400 + (IF m <= 2 THEN 1 ELSE 0)

\* civil month (1..12) of the day z
MonthFromDays(z) ==
    LET zz == z + 719468
        era == zz \div 146097
        doe == zz - era * 146097
        yoe == (doe - doe \div 1460 + doe \div 36524 - doe \div 146096) \div 365
        doy == doe - (365 * yoe + yoe \div 4 - yoe \div 100)
        mp == (5 * doy + 2) \div 153
    IN IF mp < 10 THEN mp + 3 ELSE mp - 9

\* civil day of the month (1..31) of the day z
DayFromDays(z) ==
    LET zz == z + 719468
        era == zz \div 146097
        doe == zz - era * 146097
        yoe == (doe - doe \div 1460 + doe \div 36524 - doe \div 146096) \div 365
        doy == doe - (365 * yoe + yoe \div 4 - yoe \div 100)
        mp == (5 * doy + 2) \div 153
    IN doy - (153 * mp + 2) \div 5 + 1

LocalSeconds(t) == t + TzOffsetSec
LocalDay(t) == LocalSeconds(t) \div SecPerDay
SecondOfDay(t) == LocalSeconds(t) % SecPerDay

\* Date.prototype.getHours / getMinutes / getSeconds / getDay / getFullYear
getHours(t) == SecondOfDay(t) \div SecPerHour
getMinutes(t) == (SecondOfDay(t) % SecPerHour) \div SecPerMin
getSeconds(t) == SecondOfDay(t) % SecPerMin
getDay(t) == (LocalDay(t) + 4) % 7
getFullYear(t) == YearFromDays(LocalDay(t))
\* Date.prototype.getMonth (0..11) / getDate
getMonth(t) == MonthFromDays(LocalDay(t)) - 1
getDate(t) == DayFromDays(LocalDay(t))

\* Date.prototype.setHours(h, m, s, 0): same local calendar day, new time of day
setHours(t, h, m, s) ==
    LocalDay(t) * SecPerDay + h * SecPerHour + m * SecPerMin + s - TzOffsetSec

\* Date.prototype.setHours(h): the hour field replaced, any h carried into the day
setHoursTo(t, h) == t + (h - getHours(t)) * SecPerHour

\* Date.prototype.setMinutes(m): the minute field replaced, any m carried over
setMinutes(t, m) == t + (m - getMinutes(t)) * SecPerMin

\* d.setDate(d.getDate() + n): n calendar days later, same time of day
addDays(t, n) == t + n * SecPerDay

\* new Date(year, monthIndex, day): local midnight of that date
newDate(y, monthIndex, d) ==
    DaysFromCivil(y, monthIndex + 1, d) * SecPerDay - TzOffsetSec

\* Date.UTC(year, monthIndex, day, h, m, s) / 1000
DateUTC(y, monthIndex, d, h, m, s) ==
    DaysFromCivil(y, monthIndex + 1, d) * SecPerDay
        + h * SecPerHour + m * SecPerMin + s

\* new Date("YYYY-MM-DDTHH:MM:SS"): a timestamp without offset is local time
parseDate(ts) ==
    DaysFromCivil(ts.year, ts.month, ts.day) * SecPerDay
        + ts.hour * SecPerHour + ts.minute * SecPerMin + ts.second - TzOffsetSec

Timestamp(y, mo, d, h, mi, s) ==
    [year |-> y, month |-> mo, day |-> d, hour |-> h, minute |-> mi, second |-> s]

-----------------------------------------------------------------------------
(* EventFilter: time boundaries (filters.js 43-157) *)

TimeFilterKinds ==
    {"sunrise", "sunday-primetime", "full-moon", "6h", "12h", "24h", "48h", "all"}

\* a value of filters.timeFilter that no case of the switch names
UnknownKind == "next-week"

\* mutant: rolls over only after the 06 hour has passed
getNextSunriseLate(t) ==
    LET sunrise == setHours(t, 6, 0, 0)
    IN IF getHours(t) > 6 THEN addDays(sunrise, 1) ELSE sunrise

getNextSunrise(t) ==
    LET sunrise == setHours(t, 6, 0, 0)
    IN IF getHours(t) >= 6 THEN addDays(sunrise, 1) ELSE sunrise

\* mutant: a Sunday reading at 20:15 exactly still selects today
getNextSundayPrimetimeAfter(t) ==
    LET currentDay == getDay(t)
        currentTime == getHours(t) * 60 + getMinutes(t)
        primetimeMinutes == 20 * 60 + 15
        daysUntilSunday ==
            IF currentDay = 0
            THEN (IF currentTime > primetimeMinutes THEN 7 ELSE 0)
            ELSE 7 - currentDay
    IN setHours(addDays(t, daysUntilSunday), 20, 15, 0)

\* mutant: a weekday rolls forward by its own number instead of 7 minus it
getNextSundayPrimetimeByWeekday(t) ==
    LET currentDay == getDay(t)
        currentTime == getHours(t) * 60 + getMinutes(t)
        primetimeMinutes == 20 * 60 + 15
        daysUntilSunday ==
            IF currentDay = 0
            THEN (IF currentTime >= primetimeMinutes THEN 7 ELSE 0)
            ELSE currentDay
    IN setHours(addDays(t, daysUntilSunday), 20, 15, 0)

\* mutant: a Sunday reading always selects today
getNextSundayPrimetimeToday(t) ==
    LET currentDay == getDay(t)
        daysUntilSunday == IF currentDay = 0 THEN 0 ELSE 7 - currentDay
    IN setHours(addDays(t, daysUntilSunday), 20, 15, 0)

getNextSundayPrimetime(t) ==
    LET currentDay == getDay(t)
        currentTime == getHours(t) * 60 + getMinutes(t)
        primetimeMinutes == 20 * 60 + 15
        daysUntilSunday ==
            IF currentDay = 0
            THEN (IF currentTime >= primetimeMinutes THEN 7 ELSE 0)
            ELSE 7 - currentDay
    IN setHours(addDays(t, daysUntilSunday), 20, 15, 0)

\* Date.UTC(2000, 0, 6, 18, 14, 0)
knownFullMoon == DateUTC(2000, 0, 6, 18, 14, 0)

\* lunarCycle = 29.53058770576 days = 2551442.7777... s = LunarCycleWhole + 7/9 s
LunarCycleWhole == 2551442
LunarCycleNinths == 7

\* knownFullMoon + k * lunarCycle, truncated to the second
fullMoonAt(k) == knownFullMoon + k * LunarCycleWhole + (LunarCycleNinths * k) \div 9

\* knownFullMoon + k * lunarCycle <= t, for t a whole second
fullMoonAtOrBefore(k, t) ==
    \/ fullMoonAt(k) < t
    \/ fullMoonAt(k) = t /\ (LunarCycleNinths * k) % 9 = 0

\* Math.floor((t - knownFullMoon) / lunarCycle): the largest k with
\* knownFullMoon + k * lunarCycle <= t, found upward from an underestimate
RECURSIVE cyclesFrom(_, _)
cyclesFrom(k, t) ==
    IF fullMoonAtOrBefore(k + 1, t) THEN cyclesFrom(k + 1, t) ELSE k

cyclesSinceKnown(t) ==
    cyclesFrom((t - knownFullMoon) \div (LunarCycleWhole + 1) - 1, t)

\* while (fullMoon <= nextSunday) fullMoon += lunarCycle
RECURSIVE firstFullMoonAfter(_, _)
firstFullMoonAfter(k, nextSunday) ==
    IF fullMoonAtOrBefore(k, nextSunday)
    THEN firstFullMoonAfter(k + 1, nextSunday)
    ELSE k

\* mutant: the loop runs until the full moon is after the clock reading
getNextFullMoonMorningAfterNow(t) ==
    LET k == firstFullMoonAfter(cyclesSinceKnown(t), t)
        dayAfterFullMoon == addDays(fullMoonAt(k), 1)
    IN setHours(dayAfterFullMoon, 6, 0, 0)

getNextFullMoonMorning(t) ==
    LET nextSunday == setHours(getNextSundayPrimetime(t), 0, 0, 0)
        k == firstFullMoonAfter(cyclesSinceKnown(t), nextSunday)
        dayAfterFullMoon == addDays(fullMoonAt(k), 1)
    IN setHours(dayAfterFullMoon, 6, 0, 0)

\* mutant: the default case is the 24h case
getMaxEventTimeDefaultDay(kind, t) ==
    CASE kind = "sunrise" -> getNextSunrise(t)
      [] kind = "sunday-primetime" -> getNextSundayPrimetime(t)
      [] kind = "full-moon" -> getNextFullMoonMorning(t)
      [] kind = "6h" -> t + 6 * 60 * 60
      [] kind = "12h" -> t + 12 * 60 * 60
      [] kind = "24h" -> t + 24 * 60 * 60
      [] kind = "48h" -> t + 48 * 60 * 60
      [] kind = "all" -> newDate(getFullYear(t) + 10, 11, 31)
      [] OTHER -> t + 24 * 60 * 60

\* mutant: the 12h case adds 2 hours
getMaxEventTimeShortTwelve(kind, t) ==
    CASE kind = "sunrise" -> getNextSunrise(t)
      [] kind = "sunday-primetime" -> getNextSundayPrimetime(t)
      [] kind = "full-moon" -> getNextFullMoonMorning(t)
      [] kind = "6h" -> t + 6 * 60 * 60
      [] kind = "12h" -> t + 2 * 60 * 60
      [] kind = "24h" -> t + 24 * 60 * 60
      [] kind = "48h" -> t + 48 * 60 * 60
      [] kind = "all" -> newDate(getFullYear(t) + 10, 11, 31)
      [] OTHER -> getNextSunrise(t)

getMaxEventTime(kind, t) ==
    CASE kind = "sunrise" -> getNextSunrise(t)
      [] kind = "sunday-primetime" -> getNextSundayPrimetime(t)
      [] kind = "full-moon" -> getNextFullMoonMorning(t)
      [] kind = "6h" -> t + 6 * 60 * 60
      [] kind = "12h" -> t + 12 * 60 * 60
      [] kind = "24h" -> t + 24 * 60 * 60
      [] kind = "48h" -> t + 48 * 60 * 60
      [] kind = "all" -> newDate(getFullYear(t) + 10, 11, 31)
      [] OTHER -> getNextSunrise(t)

-----------------------------------------------------------------------------
(* EventFilter.calculateDistance (filters.js 27-36), in fixed point *)

\* 1000 * sin(15 * k degrees), k = 0..6
SinTable == <<0, 259, 500, 707, 866, 966, 1000>>

\* 1000 * Math.sin(deg * Math.PI / 180), deg a multiple of 15
RECURSIVE sinDeg(_)
sinDeg(deg) ==
    LET d == deg % 360
    IN IF d <= 90 THEN SinTable[d \div 15 + 1]
       ELSE IF d <= 180 THEN SinTable[(180 - d) \div 15 + 1]
       ELSE 0 - sinDeg(d - 180)

cosDeg(deg) == sinDeg(deg + 90)

\* Math.sqrt on integers: the largest r in lo..hi with r * r <= n
RECURSIVE sqrtBetween(_, _, _)
sqrtBetween(n, lo, hi) ==
    IF lo >= hi THEN lo
    ELSE LET mid == (lo + hi + 1) \div 2
         IN IF mid * mid <= n THEN sqrtBetween(n, mid, hi)
            ELSE sqrtBetween(n, lo, mid - 1)

sqrt(n) == sqrtBetween(n, 0, 2000)

\* Math.atan2(sqrt(a), sqrt(1 - a)) = asin(sqrt(a)), in hundredths of a degree,
\* for root = 1000 * sqrt(a); linear between the entries of SinTable
asinCentiDeg(root) ==
    IF root >= 1000 THEN 9000
    ELSE LET k == CHOOSE j \in 0..5 : SinTable[j + 1] <= root /\ root < SinTable[j + 2]
             lo == SinTable[k + 1]
             hi == SinTable[k + 2]
         IN 1500 * k + (1500 * (root - lo)) \div (hi - lo)

\* Earth radius in km
R == 6371

\* mutant: the longitude term leaves out cos(lat2)
calculateDistanceOneCos(lat1, lon1, lat2, lon2) ==
    LET sLat == sinDeg((lat2 - lat1) \div 2)
        sLon == sinDeg((lon2 - lon1) \div 2)
        a == sLat * sLat + cosDeg(lat1) * ((sLon * sLon) \div 1000)
        half == asinCentiDeg(sqrt(a))
    IN (((half * R) \div 100) * 355) \div (113 * 90)

calculateDistance(lat1, lon1, lat2, lon2) ==
    LET sLat == sinDeg((lat2 - lat1) \div 2)
        sLon == sinDeg((lon2 - lon1) \div 2)
        a == sLat * sLat
               + ((cosDeg(lat1) * cosDeg(lat2)) \div 1000) * ((sLon * sLon) \div 1000)
        half == asinCentiDeg(sqrt(a))
    IN (((half * R) \div 100) * 355) \div (113 * 90)

-----------------------------------------------------------------------------
(* EventStorage: bookmarks (storage.js 145-175) *)

MAX_BOOKMARKS == 15

indexOf(list, x) ==
    IF \E i \in 1..Len(list) : list[i] = x
    THEN CHOOSE i \in 1..Len(list) : list[i] = x /\ \A j \in 1..(i - 1) : list[j] # x
    ELSE 0

isBookmarked(list, eventId) == \E i \in 1..Len(list) : list[i] = eventId

\* the return value of toggleBookmark(eventId)
toggleBookmarkReturns(list, eventId) == indexOf(list, eventId) = 0

\* mutant: the oldest bookmark goes only when more than MAX_BOOKMARKS are held
toggleBookmarkOverLimit(list, eventId) ==
    LET index == indexOf(list, eventId)
    IN IF index # 0
       THEN SubSeq(list, 1, index - 1) \o SubSeq(list, index + 1, Len(list))
       ELSE IF Len(list) > MAX_BOOKMARKS
            THEN Append(Tail(list), eventId)
            ELSE Append(list, eventId)

\* the bookmarks array after toggleBookmark(eventId)
toggleBookmark(list, eventId) ==
    LET index == indexOf(list, eventId)
    IN IF index # 0
       THEN SubSeq(list, 1, index - 1) \o SubSeq(list, index + 1, Len(list))
       ELSE IF Len(list) >= MAX_BOOKMARKS
            THEN Append(Tail(list), eventId)
            ELSE Append(list, eventId)

-----------------------------------------------------------------------------
(* EventFilter.filterEvents and countCategoriesUnderFilters (filters.js 166-266) *)

eventDistance(event, refLoc) ==
    calculateDistance(refLoc.lat, refLoc.lon, event.location.lat, event.location.lon)

\* mutant: the time gate rejects an event that starts exactly at the boundary
filterCallbackExclusiveTime(event, flt, refLoc, bm, maxEventTime) ==
    IF isBookmarked(bm, event.id)
    THEN IF Truthy(refLoc) /\ Truthy(event.location)
         THEN [keep |-> TRUE,
               event |-> [event EXCEPT !.distance = eventDistance(event, refLoc)]]
         ELSE [keep |-> TRUE, event |-> event]
    ELSE IF parseDate(event.start_time) >= maxEventTime
    THEN [keep |-> FALSE, event |-> event]
    ELSE IF flt.category # "all" /\ event.category # flt.category
    THEN [keep |-> FALSE, event |-> event]
    ELSE IF Truthy(refLoc) /\ Truthy(event.location)
    THEN [keep |-> ~(eventDistance(event, refLoc) > flt.maxDistance),
          event |-> [event EXCEPT !.distance = eventDistance(event, refLoc)]]
    ELSE [keep |-> TRUE, event |-> event]

\* mutant: the bookmark test comes after the time gate
filterCallbackBookmarkLate(event, flt, refLoc, bm, maxEventTime) ==
    IF parseDate(event.start_time) > maxEventTime
    THEN [keep |-> FALSE, event |-> event]
    ELSE IF isBookmarked(bm, event.id)
    THEN IF Truthy(refLoc) /\ Truthy(event.location)
         THEN [keep |-> TRUE,
               event |-> [event EXCEPT !.distance = eventDistance(event, refLoc)]]
         ELSE [keep |-> TRUE, event |-> event]
    ELSE IF flt.category # "all" /\ event.category # flt.category
    THEN [keep |-> FALSE, event |-> event]
    ELSE IF Truthy(refLoc) /\ Truthy(event.location)
    THEN [keep |-> ~(eventDistance(event, refLoc) > flt.maxDistance),
          event |-> [event EXCEPT !.distance = eventDistance(event, refLoc)]]
    ELSE [keep |-> TRUE, event |-> event]

\* mutant: an event without a location counts as infinitely far away
filterCallbackNoLocationFar(event, flt, refLoc, bm, maxEventTime) ==
    IF isBookmarked(bm, event.id)
    THEN IF Truthy(refLoc) /\ Truthy(event.location)
         THEN [keep |-> TRUE,
               event |-> [event EXCEPT !.distance = eventDistance(event, refLoc)]]
         ELSE [keep |-> TRUE, event |-> event]
    ELSE IF parseDate(event.start_time) > maxEventTime
    THEN [keep |-> FALSE, event |-> event]
    ELSE IF flt.category # "all" /\ event.category # flt.category
    THEN [keep |-> FALSE, event |-> event]
    ELSE IF Truthy(refLoc) /\ Truthy(event.location)
    THEN [keep |-> ~(eventDistance(event, refLoc) > flt.maxDistance),
          event |-> [event EXCEPT !.distance = eventDistance(event, refLoc)]]
    ELSE [keep |-> ~Truthy(refLoc), event |-> event]

\* the callback of events.filter: whether the event is kept, and the event
\* object as the callback leaves it
filterCallback(event, flt, refLoc, bm, maxEventTime) ==
    IF isBookmarked(bm, event.id)
    THEN IF Truthy(refLoc) /\ Truthy(event.location)
         THEN [keep |-> TRUE,
               event |-> [event EXCEPT !.distance = eventDistance(event, refLoc)]]
         ELSE [keep |-> TRUE, event |-> event]
    ELSE IF parseDate(event.start_time) > maxEventTime
    THEN [keep |-> FALSE, event |-> event]
    ELSE IF flt.category # "all" /\ event.category # flt.category
    THEN [keep |-> FALSE, event |-> event]
    ELSE IF Truthy(refLoc) /\ Truthy(event.location)
    THEN [keep |-> ~(eventDistance(event, refLoc) > flt.maxDistance),
          event |-> [event EXCEPT !.distance = eventDistance(event, refLoc)]]
    ELSE [keep |-> TRUE, event |-> event]

\* events.filter(callback) from element i on; acc holds the event objects as
\* left so far and the indices of the kept ones
RECURSIVE filterFrom(_, _, _, _, _, _)
filterFrom(i, acc, flt, refLoc, bm, maxEventTime) ==
    IF i > Len(acc.events) THEN acc
    ELSE LET r == filterCallback(acc.events[i], flt, refLoc, bm, maxEventTime)
         IN filterFrom(i + 1,
                [events |-> [acc.events EXCEPT ![i] = r.event],
                 filtered |-> IF r.keep THEN Append(acc.filtered, i) ELSE acc.filtered],
                flt, refLoc, bm, maxEventTime)

\* filterEvents(events, filters, referenceLocation) with the clock reading t:
\* the event objects afterwards and the returned array (references into them)
filterEvents(evs, flt, refLoc, bm, t) ==
    filterFrom(1, [events |-> evs, filtered |-> <<>>], flt, refLoc, bm,
               getMaxEventTime(flt.timeFilter, t))

categoryOf(event) ==
    IF event.category = Undefined THEN "uncategorized" ELSE event.category

\* categoryCounts[cat] = (categoryCounts[cat] || 0) + 1
increment(counts, cat) ==
    IF cat \in DOMAIN counts
    THEN [counts EXCEPT ![cat] = @ + 1]
    ELSE counts @@ (cat :> 1)

\* mutant: a bookmarked event is counted only when it passes the gates
countCallbackNoBookmarks(counts, event, flt, refLoc, bm, maxEventTime) ==
    IF parseDate(event.start_time) > maxEventTime
    THEN counts
    ELSE IF Truthy(refLoc) /\ Truthy(event.location)
            /\ eventDistance(event, refLoc) > flt.maxDistance
    THEN counts
    ELSE increment(counts, categoryOf(event))

\* the callback of events.forEach in countCategoriesUnderFilters
countCallback(counts, event, flt, refLoc, bm, maxEventTime) ==
    IF isBookmarked(bm, event.id)
    THEN increment(counts, categoryOf(event))
    ELSE IF parseDate(event.start_time) > maxEventTime
    THEN counts
    ELSE IF Truthy(refLoc) /\ Truthy(event.location)
            /\ eventDistance(event, refLoc) > flt.maxDistance
    THEN counts
    ELSE increment(counts, categoryOf(event))

RECURSIVE countFrom(_, _, _, _, _, _, _)
countFrom(i, counts, evs, flt, refLoc, bm, maxEventTime) ==
    IF i > Len(evs) THEN counts
    ELSE countFrom(i + 1,
                   countCallback(counts, evs[i], flt, refLoc, bm, maxEventTime),
                   evs, flt, refLoc, bm, maxEventTime)

EmptyCounts == [c \in {} |-> 0]

countCategoriesUnderFilters(evs, flt, refLoc, bm, t) ==
    countFrom(1, EmptyCounts, evs, flt, refLoc, bm,
              getMaxEventTime(flt.timeFilter, t))

-----------------------------------------------------------------------------
(* SpeechBubbles.deduplicateEvents *)

\* a title is a sequence of one-character strings
toLowerCaseChar(c) ==
    CASE c = "M" -> "m"
      [] c = "D" -> "d"
      [] c = "X" -> "x"
      [] OTHER -> c

toLowerCase(str) == [i \in 1..Len(str) |-> toLowerCaseChar(str[i])]

RECURSIVE trimStart(_)
trimStart(str) ==
    IF str # <<>> /\ Head(str) = " " THEN trimStart(Tail(str)) ELSE str

RECURSIVE trimEnd(_)
trimEnd(str) ==
    IF str # <<>> /\ str[Len(str)] = " "
    THEN trimEnd(SubSeq(str, 1, Len(str) - 1))
    ELSE str

trim(str) == trimEnd(trimStart(str))

\* mutant: the key keeps the title as written
itemKeyRawTitle(event) == <<event.title, event.start_time>>

\* `${title}|${startTime}` (speech-bubbles-complex.js 81-83): the two parts of
\* the key; a timestamp holds no "|", so the parts determine the joined string
\* and the joined string determines the parts
itemKey(event) == <<trim(toLowerCase(event.title)), event.start_time>>

\* Map.has / Map.get on a Map kept as its entries in insertion order
mapHas(map, key) == \E j \in 1..Len(map) : map[j].key = key
mapIndex(map, key) == CHOOSE j \in 1..Len(map) : map[j].key = key

\* mutant: a later match replaces the representative
dedupeCallbackLastWins(uniqueMap, items, i) ==
    LET item == items[i]
        key == itemKey(item.event)
    IN IF mapHas(uniqueMap, key)
       THEN LET j == mapIndex(uniqueMap, key)
            IN [uniqueMap EXCEPT ![j].value.duplicateCount = @ + 1,
                                 ![j].value.duplicates = Append(@, i),
                                 ![j].value.event = i]
       ELSE Append(uniqueMap,
                [key |-> key,
                 value |-> [event |-> i, marker |-> item.marker,
                            originalIndex |-> item.originalIndex,
                            duplicateCount |-> 1, duplicates |-> <<i>>]])

\* mutant: a match is counted but not kept among the duplicates
dedupeCallbackCountOnly(uniqueMap, items, i) ==
    LET item == items[i]
        key == itemKey(item.event)
    IN IF mapHas(uniqueMap, key)
       THEN LET j == mapIndex(uniqueMap, key)
            IN [uniqueMap EXCEPT ![j].value.duplicateCount = @ + 1]
       ELSE Append(uniqueMap,
                [key |-> key,
                 value |-> [event |-> i, marker |-> item.marker,
                            originalIndex |-> item.originalIndex,
                            duplicateCount |-> 1, duplicates |-> <<i>>]])

\* the callback of eventItems.forEach (speech-bubbles-complex.js 80-96);
\* an event object is referred to by its position in eventItems
dedupeCallback(uniqueMap, items, i) ==
    LET item == items[i]
        key == itemKey(item.event)
    IN IF mapHas(uniqueMap, key)
       THEN LET j == mapIndex(uniqueMap, key)
            IN [uniqueMap EXCEPT ![j].value.duplicateCount = @ + 1,
                                 ![j].value.duplicates = Append(@, i)]
       ELSE Append(uniqueMap,
                [key |-> key,
                 value |-> [event |-> i, marker |-> item.marker,
                            originalIndex |-> item.originalIndex,
                            duplicateCount |-> 1, duplicates |-> <<i>>]])

RECURSIVE dedupeFrom(_, _, _)
dedupeFrom(i, uniqueMap, items) ==
    IF i > Len(items) THEN uniqueMap
    ELSE dedupeFrom(i + 1, dedupeCallback(uniqueMap, items, i), items)

\* Array.from(uniqueMap.values())
mapValues(map) == [j \in 1..Len(map) |-> map[j].value]

deduplicateEvents(items) == mapValues(dedupeFrom(1, <<>>, items))

\* speech-bubbles.js 76-97: grouping by title alone
titleKey(event) == trim(toLowerCase(event.title))

titleCallback(titleMap, items, i) ==
    LET key == titleKey(items[i].event)
    IN IF mapHas(titleMap, key)
       THEN [titleMap EXCEPT ![mapIndex(titleMap, key)].value = Append(@, i)]
       ELSE Append(titleMap, [key |-> key, value |-> <<i>>])

RECURSIVE titleGroupsFrom(_, _, _)
titleGroupsFrom(i, titleMap, items) ==
    IF i > Len(items) THEN titleMap
    ELSE titleGroupsFrom(i + 1, titleCallback(titleMap, items, i), items)

deduplicateEventsByTitle(items) ==
    LET titleMap == titleGroupsFrom(1, <<>>, items)
    IN [j \in 1..Len(titleMap) |->
            [event |-> titleMap[j].value[1],
             groupSize |-> Len(titleMap[j].value),
             duplicateCount |-> Len(titleMap[j].value)]]

-----------------------------------------------------------------------------
(* EventUtils.processTemplateEvents (app-refactored.js 1104-1198) *)

\* obj.field, a string when the object has it
Get(obj, field) == IF field \in DOMAIN obj THEN obj[field] ELSE Undefined

\* obj.field = value
Assign(obj, field, value) ==
    [f \in DOMAIN obj \cup {field} |-> IF f = field THEN value ELSE obj[f]]

\* the object has the field
Has(obj, field) == field \in DOMAIN obj

\* truthiness of obj.field, a number when the object has it
TruthyNumber(obj, field) == Has(obj, field) /\ obj[field] # 0

\* obj.field || fallback
OrElse(obj, field, fallback) ==
    IF TruthyNumber(obj, field) THEN obj[field] ELSE fallback

\* timezone_offset is counted in quarters of an hour: 5.5 hours is 22
TzUnit == 4

\* a % n of JavaScript: the remainder has the sign of a
Remainder(a, n) == IF a >= 0 THEN a % n ELSE 0 - ((0 - a) % n)

\* Math.abs
abs(x) == IF x < 0 THEN 0 - x ELSE x

Digits == <<"0", "1", "2", "3", "4", "5", "6", "7", "8", "9">>

\* String(n) of a natural number, as a sequence of characters
RECURSIVE String(_)
String(n) ==
    IF n < 10 THEN <<Digits[n + 1]>>
    ELSE String(n \div 10) \o <<Digits[(n % 10) + 1]>>

\* str.padStart(2, '0')
padStart2(str) == IF Len(str) < 2 THEN <<"0">> \o str ELSE str

\* `${sign}${String(hours).padStart(2, '0')}:${String(minutes).padStart(2, '0')}`
tzString(tzOffset) ==
    LET sign == IF tzOffset >= 0 THEN "+" ELSE "-"
        hours == abs(tzOffset \div TzUnit)
        minutes == abs((Remainder(tzOffset, TzUnit) * 60) \div TzUnit)
    IN <<sign>> \o padStart2(String(hours)) \o <<":">> \o padStart2(String(minutes))

\* "YYYY-MM-DDTHH:MM:SS" from the local fields of the date
formatDateTime(date) ==
    Timestamp(getFullYear(date), getMonth(date) + 1, getDate(date),
              getHours(date), getMinutes(date), getSeconds(date))

\* formatDateTime(date) + tzString
formatDateTimeWithTZ(date, suffix) == Assign(formatDateTime(date), "tz", suffix)

\* the callback of events.map, for a template event of type 'offset'
processOffset(event, spec, t) ==
    LET afterHours ==
            IF TruthyNumber(spec, "hours")
            THEN setHoursTo(t, getHours(t) + spec.hours)
            ELSE t
        startTime ==
            IF TruthyNumber(spec, "minutes")
            THEN setMinutes(afterHours, getMinutes(afterHours) + spec.minutes)
            ELSE afterHours
        durationSec == OrElse(spec, "duration_hours", 2) * 60 * 60
        endTime == startTime + durationSec
        tzOffset == OrElse(spec, "timezone_offset", 0)
    IN IF tzOffset # 0
       THEN Assign(Assign(event, "start_time",
                          formatDateTimeWithTZ(startTime, tzString(tzOffset))),
                   "end_time", formatDateTimeWithTZ(endTime, tzString(tzOffset)))
       ELSE Assign(Assign(event, "start_time", formatDateTime(startTime)),
                   "end_time", formatDateTime(endTime))

\* mutant: the end is offset from the start time instead of the sunrise
processSunriseRelativeFromStart(event, spec, t) ==
    LET sunrise == getNextSunrise(t)
        startHours ==
            IF TruthyNumber(spec, "start_offset_hours")
            THEN setHoursTo(sunrise, getHours(sunrise) + spec.start_offset_hours)
            ELSE sunrise
        startTime ==
            IF TruthyNumber(spec, "start_offset_minutes")
            THEN setMinutes(startHours, getMinutes(startHours) + spec.start_offset_minutes)
            ELSE startHours
        endHours ==
            IF TruthyNumber(spec, "end_offset_hours")
            THEN setHoursTo(startTime, getHours(startTime) + spec.end_offset_hours)
            ELSE startTime
        endTime ==
            IF TruthyNumber(spec, "end_offset_minutes")
            THEN setMinutes(endHours, getMinutes(endHours) + spec.end_offset_minutes)
            ELSE endHours
    IN Assign(Assign(event, "start_time", formatDateTime(startTime)),
              "end_time", formatDateTime(endTime))

\* the callback of events.map, for a template event of type 'sunrise_relative'
processSunriseRelative(event, spec, t) ==
    LET sunrise == getNextSunrise(t)
        startHours ==
            IF TruthyNumber(spec, "start_offset_hours")
            THEN setHoursTo(sunrise, getHours(sunrise) + spec.start_offset_hours)
            ELSE sunrise
        startTime ==
            IF TruthyNumber(spec, "start_offset_minutes")
            THEN setMinutes(startHours, getMinutes(startHours) + spec.start_offset_minutes)
            ELSE startHours
        endHours ==
            IF TruthyNumber(spec, "end_offset_hours")
            THEN setHoursTo(sunrise, getHours(sunrise) + spec.end_offset_hours)
            ELSE sunrise
        endTime ==
            IF TruthyNumber(spec, "end_offset_minutes")
            THEN setMinutes(endHours, getMinutes(endHours) + spec.end_offset_minutes)
            ELSE endHours
    IN Assign(Assign(event, "start_time", formatDateTime(startTime)),
              "end_time", formatDateTime(endTime))

\* mutant: the copy loses its relative_time
processCallbackDropsSpec(event, t) ==
    IF ~Has(event, "relative_time") THEN event
    ELSE LET spec == event.relative_time
             type == Get(spec, "type")
             processedEvent ==
                 IF type = "offset" THEN processOffset(event, spec, t)
                 ELSE IF type = "sunrise_relative"
                      THEN processSunriseRelative(event, spec, t)
                      ELSE event
             stamped == Assign(processedEvent, "published_at", formatDateTime(t))
         IN [f \in DOMAIN stamped \ {"relative_time"} |-> stamped[f]]

\* mutant: every event is stamped with published_at
processCallbackStampsAll(event, t) ==
    IF ~Has(event, "relative_time")
    THEN Assign(event, "published_at", formatDateTime(t))
    ELSE LET spec == event.relative_time
             type == Get(spec, "type")
             processedEvent ==
                 IF type = "offset" THEN processOffset(event, spec, t)
                 ELSE IF type = "sunrise_relative"
                      THEN processSunriseRelative(event, spec, t)
                      ELSE event
         IN Assign(processedEvent, "published_at", formatDateTime(t))

\* the callback of events.map: the event itself when it has no relative_time,
\* else a copy with its times set by the type and published_at stamped
processCallback(event, t) ==
    IF ~Has(event, "relative_time") THEN event
    ELSE LET spec == event.relative_time
             type == Get(spec, "type")
             processedEvent ==
                 IF type = "offset" THEN processOffset(event, spec, t)
                 ELSE IF type = "sunrise_relative"
                      THEN processSunriseRelative(event, spec, t)
                      ELSE event
         IN Assign(processedEvent, "published_at", formatDateTime(t))

processTemplateEvents(evs, t) ==
    [i \in 1..Len(evs) |-> processCallback(evs[i], t)]

-----------------------------------------------------------------------------
(* JSON.stringify and JSON.parse, on texts that are sequences of tokens *)

\* the values of the filter settings: numbers, strings, booleans and null
Num(n) == [type |-> "number", value |-> n]
Str(str) == [type |-> "string", value |-> str]
Bool(b) == [type |-> "boolean", value |-> b]
Null == [type |-> "null"]

\* JSON.stringify of a number, a string, a boolean or null
stringifyValue(v) ==
    CASE v.type = "number" ->
             (IF v.value < 0 THEN <<"-">> ELSE <<>>) \o String(abs(v.value))
      [] v.type = "string" -> <<"\"", v.value, "\"">>
      [] v.type = "boolean" -> <<IF v.value THEN "true" ELSE "false">>
      [] OTHER -> <<"null">>

\* the members of JSON.stringify(obj) for the keys from position i on, in the
\* order of the keys; a key whose value is undefined is left out
RECURSIVE stringifyMembers(_, _, _, _)
stringifyMembers(obj, keys, i, first) ==
    IF i > Len(keys) THEN <<>>
    ELSE IF ~Has(obj, keys[i]) THEN stringifyMembers(obj, keys, i + 1, first)
    ELSE (IF first THEN <<>> ELSE <<",">>)
            \o <<"\"", keys[i], "\"", ":">> \o stringifyValue(obj[keys[i]])
            \o stringifyMembers(obj, keys, i + 1, FALSE)

stringifyObject(obj, keys) == <<"{">> \o stringifyMembers(obj, keys, 1, TRUE) \o <<"}">>

\* the elements of JSON.stringify(list) from position i on, list an array of strings
RECURSIVE stringifyElements(_, _)
stringifyElements(list, i) ==
    IF i > Len(list) THEN <<>>
    ELSE (IF i = 1 THEN <<>> ELSE <<",">>) \o <<"\"", list[i], "\"">>
            \o stringifyElements(list, i + 1)

stringifyArray(list) == <<"[">> \o stringifyElements(list, 1) \o <<"]">>

isDigit(c) == \E d \in 1..10 : Digits[d] = c

digitValue(c) == (CHOOSE d \in 1..10 : Digits[d] = c) - 1

\* the number whose digits start at position i of the text, after the digits
\* that made acc, and the position after it
RECURSIVE parseDigits(_, _, _)
parseDigits(text, i, acc) ==
    IF i <= Len(text) /\ isDigit(text[i])
    THEN parseDigits(text, i + 1, acc * 10 + digitValue(text[i]))
    ELSE [value |-> acc, next |-> i]

\* the value that starts at position i of the text, and the position after it
parseValue(text, i) ==
    CASE text[i] = "\"" -> [value |-> Str(text[i + 1]), next |-> i + 3]
      [] text[i] = "true" -> [value |-> Bool(TRUE), next |-> i + 1]
      [] text[i] = "false" -> [value |-> Bool(FALSE), next |-> i + 1]
      [] text[i] = "null" -> [value |-> Null, next |-> i + 1]
      [] text[i] = "-" ->
             LET digits == parseDigits(text, i + 1, 0)
             IN [value |-> Num(0 - digits.value), next |-> digits.next]
      [] OTHER ->
             LET digits == parseDigits(text, i, 0)
             IN [value |-> Num(digits.value), next |-> digits.next]

\* the object whose members start at position i of the text, added to obj
RECURSIVE parseMembers(_, _, _)
parseMembers(text, i, obj) ==
    IF text[i] = "}" THEN obj
    ELSE IF text[i] = "," THEN parseMembers(text, i + 1, obj)
    ELSE LET key == text[i + 1]
             member == parseValue(text, i + 4)
         IN parseMembers(text, member.next, Assign(obj, key, member.value))

\* the array whose elements start at position i of the text, appended to list
RECURSIVE parseElements(_, _, _)
parseElements(text, i, list) ==
    IF text[i] = "]" THEN list
    ELSE IF text[i] = "," THEN parseElements(text, i + 1, list)
    ELSE parseElements(text, i + 3, Append(list, text[i + 1]))

\* JSON.parse of the text of an object or of an array of strings
parse(text) ==
    IF text[1] = "{" THEN parseMembers(text, 2, <<>>)
    ELSE parseElements(text, 2, <<>>)

\* Array.isArray of a parsed value
isArray(value) == DOMAIN value = 1..Len(value)

-----------------------------------------------------------------------------
(* EventStorage: persistence (storage.js 12-17, 64-138) *)

\* the fields of filtersToSave, in the order of the object literal
SavedKeys == <<"maxDistance", "locationType", "selectedPredefinedLocation",
               "useCustomLocation", "customLat", "customLon">>

\* localStorage after saveFiltersToCookie(filters)
saveFiltersToCookie(storage, flt) ==
    LET filtersToSave == [k \in {key \in {SavedKeys[i] : i \in 1..Len(SavedKeys)} : Has(flt, key)}
                                |-> flt[k]]
        filterData == stringifyObject(filtersToSave, SavedKeys)
    IN Assign(storage, "krwl_filters", filterData)

\* mutant: the saved settings are returned as they were saved
loadFiltersFromCookieAsSaved(storage) ==
    IF Has(storage, "krwl_filters")
    THEN parse(storage.krwl_filters)
    ELSE Null

\* the return value of loadFiltersFromCookie(): the saved settings with
\* category and timeFilter reset, or Null
loadFiltersFromCookie(storage) ==
    IF Has(storage, "krwl_filters")
    THEN LET savedFilters == parse(storage.krwl_filters)
         IN Assign(Assign(savedFilters, "category", Str("all")),
                   "timeFilter", Str("sunrise"))
    ELSE Null

\* the return value of loadBookmarks()
loadBookmarks(storage) ==
    IF Has(storage, "krwl_bookmarks")
    THEN LET loaded == parse(storage.krwl_bookmarks)
         IN IF isArray(loaded) THEN loaded ELSE <<>>
    ELSE <<>>

\* localStorage after saveBookmarks()
saveBookmarks(storage, list) == Assign(storage, "krwl_bookmarks", stringifyArray(list))

-----------------------------------------------------------------------------
(* TimeDrawer (unnamed/part_014 12-165, 464-535) *)

\* null, where elements are numbered from 1
NoElement == 0

\* config.minEventsThreshold
minEventsThreshold == 5

\* the TimeDrawer after its constructor, with an empty document.body and no
\* timeout pending
newTimeDrawer ==
    [enabled |-> FALSE, drawerElement |-> NoElement, handleElement |-> NoElement,
     thresholdMessageElement |-> NoElement, updateTimer |-> FALSE,
     created |-> 0, body |-> {},
     removeDrawerTimeouts |-> 0, removeMessageTimeouts |-> 0, autoHideTimeouts |-> 0]

removeDrawerUI(d) ==
    IF d.drawerElement # NoElement
    THEN [d EXCEPT !.removeDrawerTimeouts = @ + 1]
    ELSE d

\* the callback of the setTimeout in removeDrawerUI
removeDrawerTimeout(d) ==
    [d EXCEPT !.body = IF d.drawerElement # NoElement /\ d.drawerElement \in d.body
                       THEN d.body \ {d.drawerElement}
                       ELSE d.body,
              !.drawerElement = NoElement,
              !.handleElement = NoElement,
              !.removeDrawerTimeouts = @ - 1]

createDrawerUI(d) ==
    LET removed == removeDrawerUI(d)
        element == removed.created + 1
    IN [removed EXCEPT !.created = element,
                       !.drawerElement = element,
                       !.body = @ \cup {element},
                       !.handleElement = element]

hideThresholdMessage(d) ==
    IF d.thresholdMessageElement # NoElement
    THEN [d EXCEPT !.removeMessageTimeouts = @ + 1]
    ELSE d

\* the callback of the setTimeout in hideThresholdMessage
removeMessageTimeout(d) ==
    [d EXCEPT !.body = IF d.thresholdMessageElement # NoElement
                          /\ d.thresholdMessageElement \in d.body
                       THEN d.body \ {d.thresholdMessageElement}
                       ELSE d.body,
              !.thresholdMessageElement = NoElement,
              !.removeMessageTimeouts = @ - 1]

showThresholdMessage(d) ==
    LET hidden == hideThresholdMessage(d)
        element == hidden.created + 1
    IN [hidden EXCEPT !.created = element,
                      !.thresholdMessageElement = element,
                      !.body = @ \cup {element},
                      !.autoHideTimeouts = @ + 1]

\* the callback of the 5 second setTimeout in showThresholdMessage
autoHideTimeout(d) ==
    [hideThresholdMessage(d) EXCEPT !.autoHideTimeouts = @ - 1]

startUpdateTimer(d) == [d EXCEPT !.updateTimer = TRUE]

stopUpdateTimer(d) == [d EXCEPT !.updateTimer = FALSE]

disable(d) ==
    hideThresholdMessage(
        removeDrawerUI(stopUpdateTimer([d EXCEPT !.enabled = FALSE])))

enable(d, filterType, eventCount, sunriseTime) ==
    IF filterType # "sunrise" THEN disable(d)
    ELSE IF eventCount < minEventsThreshold
    THEN showThresholdMessage(disable(d))
    ELSE IF sunriseTime = NoTime THEN disable(d)
    ELSE startUpdateTimer(createDrawerUI([d EXCEPT !.enabled = TRUE]))

-----------------------------------------------------------------------------
(* EventListeners: the dashboard (filters.js 296-428, 505-513) *)

\* the elements that can hold the focus; NoFocus is a null
\* dashboardLastFocusedElement
NoFocus == "null"
Focusable == {"body", "filter-bar-logo", "close-dashboard"}

\* the page after setupEventListeners: the menu hidden, no call running
newDashboard ==
    [hidden |-> TRUE, opening |-> FALSE, ariaExpanded |-> FALSE,
     trapRegistered |-> FALSE,
     dashboardLastFocusedElement |-> NoFocus, activeElement |-> "body",
     awaitingExpansion |-> 0, awaitingFade |-> 0, awaitingCollapse |-> 0]

\* openDashboard up to its first await, called while activeElement has the focus
openDashboard(d, activeElement) ==
    [d EXCEPT !.activeElement = activeElement,
              !.dashboardLastFocusedElement = activeElement,
              !.opening = TRUE,
              !.awaitingExpansion = @ + 1]

\* openDashboard from its first await to its second
openDashboardShow(d) ==
    [d EXCEPT !.hidden = FALSE,
              !.ariaExpanded = TRUE,
              !.awaitingExpansion = @ - 1,
              !.awaitingFade = @ + 1]

\* openDashboard from its second await to its end
openDashboardTrap(d) ==
    [d EXCEPT !.activeElement = "close-dashboard",
              !.trapRegistered = TRUE,
              !.awaitingFade = @ - 1]

\* closeDashboard up to its await
closeDashboard(d) ==
    [d EXCEPT !.opening = FALSE,
              !.hidden = TRUE,
              !.ariaExpanded = FALSE,
              !.trapRegistered = FALSE,
              !.awaitingCollapse = @ + 1]

\* closeDashboard from its await to its end
closeDashboardFocus(d) ==
    [d EXCEPT !.activeElement = IF d.dashboardLastFocusedElement # NoFocus
                                THEN d.dashboardLastFocusedElement
                                ELSE @,
              !.awaitingCollapse = @ - 1]

-----------------------------------------------------------------------------
(* CustomDropdown (dropdown.js 9-111) and its two instances (filters.js     *)
(* 444-480)                                                                 *)

\* the values of the items of each dropdown
DropdownItems ==
    [category |-> {"all", "music", "sports", "culture"},
     timeFilter |-> {"sunrise", "6h", "12h", "24h", "48h", "all"}]

DropdownNames == DOMAIN DropdownItems

\* one CustomDropdown after its constructor
newCustomDropdown == [isOpen |-> FALSE, dropdownEl |-> NoElement, editing |-> FALSE]

\* the page after setupFilterListeners, with the default filters
newDropdowns ==
    [instances |-> [name \in DropdownNames |-> newCustomDropdown],
     body |-> {},
     created |-> 0,
     filters |-> [category |-> "all", timeFilter |-> "sunrise"]]

closeAllDropdowns(d) ==
    [d EXCEPT !.body = {},
              !.instances = [name \in DropdownNames |-> [@[name] EXCEPT !.editing = FALSE]]]

createDropdownElement(d, name) ==
    LET element == d.created + 1
    IN [d EXCEPT !.created = element,
                 !.body = @ \cup {element},
                 !.instances[name].dropdownEl = element]

open(d, name) ==
    createDropdownElement(
        [d EXCEPT !.instances[name].isOpen = TRUE,
                  !.instances[name].editing = TRUE], name)

close(d, name) ==
    [d EXCEPT !.instances[name].isOpen = FALSE,
              !.instances[name].editing = FALSE,
              !.instances[name].dropdownEl = NoElement,
              !.body = IF d.instances[name].dropdownEl # NoElement
                       THEN @ \ {d.instances[name].dropdownEl}
                       ELSE @]

\* the click listener of the trigger
triggerClick(d, name) ==
    IF d.instances[name].isOpen
    THEN close(d, name)
    ELSE open(closeAllDropdowns(d), name)

\* the click listener of an item: onSelect(value), then close()
itemClick(d, name, value) ==
    close([d EXCEPT !.filters[name] = value], name)

-----------------------------------------------------------------------------
(* Inputs *)

Event(id, title, category, start, location) ==
    [id |-> id, title |-> title, category |-> category, start_time |-> start,
     location |-> location, distance |-> NoDistance]

Place(lat, lon) == [lat |-> lat, lon |-> lon]

\* sequences over S of length 1..n
SeqsUpTo(S, n) == UNION {[1..k -> S] : k \in 1..n}

\* 2026-07-15 (a Wednesday) 00:00 local time
ClockBase == parseDate(Timestamp(2026, 7, 15, 0, 0, 0))

FilterEventPool ==
    { Event("e1", <<"M", "d">>, "music", Timestamp(2026, 7, 15, 13, 0, 0), Place(30, 0)),
      Event("e2", <<"X">>, "art", Timestamp(2026, 7, 18, 10, 0, 0), Place(30, 30)),
      Event("e3", <<"x">>, Undefined, Timestamp(2026, 9, 1, 12, 0, 0), NoLocation) }

\* clock readings of the filter specification: Wednesday 07:00:00 and
\* Saturday 22:00:00 of the same week
FilterClock == {ClockBase + 7 * SecPerHour, ClockBase + 3 * SecPerDay + 22 * SecPerHour}

FilterKinds == TimeFilterKinds \cup {UnknownKind}
FilterDistances == {1000, calculateDistance(0, 0, 30, 0)}
FilterCategories == {"all", "music", "uncategorized"}
FilterLocations == {NoLocation, Place(30, 0), Place(0, 0)}
BookmarkIds == {"e2"}

DedupeEventPool ==
    { Event("a", <<"M", "d">>, "music", Timestamp(2026, 7, 15, 18, 0, 0), Place(30, 0)),
      Event("b", <<" ", "m", "D", " ">>, "music", Timestamp(2026, 7, 15, 18, 0, 0), Place(30, 0)),
      Event(Undefined, <<"M", "d">>, "music", Timestamp(2026, 7, 15, 18, 0, 0), Place(30, 0)),
      Event(Undefined, <<"M", "d">>, "music", Timestamp(2026, 7, 15, 18, 0, 0), Place(30, 30)),
      Event(Undefined, <<"M", "d">>, "music", Timestamp(2026, 7, 16, 18, 0, 0), Place(30, 0)),
      Event("a", <<"X">>, "art", Timestamp(2026, 7, 15, 18, 0, 0), Place(30, 0)) }

\* eventsToShow.map((event, index) => ({event, marker: markers[index], originalIndex: index}))
ItemsOf(evs) ==
    [i \in 1..Len(evs) |-> [event |-> evs[i], marker |-> i - 1, originalIndex |-> i - 1]]

\* seconds after the full hour at which the boundary specification reads the clock
ClockOffsets == {0, 899, 900, 3599}
ClockEnd == ClockBase + (MaxDay + 1) * SecPerDay

ClockReadings ==
    {ClockBase + d * SecPerDay + h * SecPerHour + o :
        d \in 0..MaxDay, h \in 0..23, o \in ClockOffsets}

\* the reading after t
NextReading(t) ==
    LET o == (t - ClockBase) % SecPerHour
    IN IF o < 899 THEN t - o + 899
       ELSE IF o < 900 THEN t - o + 900
       ELSE IF o < 3599 THEN t - o + 3599
       ELSE t - o + SecPerHour

-----------------------------------------------------------------------------
(* Specification of the filter: a caller holding an event list, a settings *)
(* object, a reference location and a bookmark store                       *)

NoFilterState ==
    /\ storedEvents = <<>>
    /\ events = <<>>
    /\ bookmarks = <<>>
    /\ filters = [timeFilter |-> "sunrise", maxDistance |-> 0, category |-> "all"]
    /\ referenceLocation = NoLocation
    /\ filtered = <<>>
    /\ categoryCounts = EmptyCounts

NoDedupeState ==
    /\ eventItems = <<>>
    /\ uniqueItems = <<>>
    /\ titleItems = <<>>

NoBoundaryState ==
    /\ timeFilter = Undefined
    /\ boundary = NoTime

NoTemplateState ==
    /\ templateEvents = <<>>
    /\ processedEvents = <<>>

NoDropdownState ==
    /\ dropdowns = <<>>

NoDashboardState ==
    /\ dashboard = <<>>

NoDrawerState ==
    /\ timeDrawer = <<>>

NoDistanceState ==
    /\ distanceCall = <<>>

NoStorageState ==
    /\ localStorage = <<>>
    /\ lastCall = <<>>

FilterInit ==
    /\ now \in FilterClock
    /\ storedEvents \in SeqsUpTo(FilterEventPool, MaxEvents)
    /\ events = storedEvents
    /\ bookmarks = <<>>
    /\ filters \in [timeFilter : FilterKinds, maxDistance : FilterDistances,
                    category : FilterCategories]
    /\ referenceLocation \in FilterLocations
    /\ op = {}
    /\ filtered = <<>>
    /\ categoryCounts = EmptyCounts
    /\ NoDedupeState
    /\ NoBoundaryState
    /\ NoTemplateState
    /\ NoStorageState
    /\ NoDistanceState
    /\ NoDrawerState
    /\ NoDashboardState
    /\ NoDropdownState

FilterFrame == UNCHANGED <<storedEvents, eventItems, uniqueItems, titleItems,
                           timeFilter, boundary, templateEvents, processedEvents,
                           localStorage, lastCall,
                           distanceCall,
                           timeDrawer,
                           dashboard,
                           dropdowns>>

\* a change of the arguments makes the earlier return values stale
Stale ==
    /\ op' = {}
    /\ filtered' = <<>>
    /\ categoryCounts' = EmptyCounts

FilterEvents ==
    LET r == filterEvents(events, filters, referenceLocation, bookmarks, now)
    IN /\ events' = r.events
       /\ filtered' = r.filtered
       /\ op' = op \cup {"filter"}
       /\ UNCHANGED <<now, bookmarks, filters, referenceLocation, categoryCounts>>
       /\ FilterFrame

CountCategories ==
    /\ categoryCounts' =
           countCategoriesUnderFilters(events, filters, referenceLocation, bookmarks, now)
    /\ op' = op \cup {"count"}
    /\ UNCHANGED <<now, events, bookmarks, filters, referenceLocation, filtered>>
    /\ FilterFrame

SetTimeFilter ==
    \E k \in FilterKinds :
        /\ k # filters.timeFilter
        /\ filters' = [filters EXCEPT !.timeFilter = k]
        /\ Stale
        /\ UNCHANGED <<now, events, bookmarks, referenceLocation>>
        /\ FilterFrame

SetMaxDistance ==
    \E d \in FilterDistances :
        /\ d # filters.maxDistance
        /\ filters' = [filters EXCEPT !.maxDistance = d]
        /\ Stale
        /\ UNCHANGED <<now, events, bookmarks, referenceLocation>>
        /\ FilterFrame

SetCategory ==
    \E c \in FilterCategories :
        /\ c # filters.category
        /\ filters' = [filters EXCEPT !.category = c]
        /\ Stale
        /\ UNCHANGED <<now, events, bookmarks, referenceLocation>>
        /\ FilterFrame

SetReferenceLocation ==
    \E l \in FilterLocations :
        /\ l # referenceLocation
        /\ referenceLocation' = l
        /\ Stale
        /\ UNCHANGED <<now, events, bookmarks, filters>>
        /\ FilterFrame

ToggleBookmark ==
    \E id \in BookmarkIds :
        /\ bookmarks' = toggleBookmark(bookmarks, id)
        /\ Stale
        /\ UNCHANGED <<now, events, filters, referenceLocation>>
        /\ FilterFrame

FilterTick ==
    \E t \in FilterClock :
        /\ t > now
        /\ now' = t
        /\ Stale
        /\ UNCHANGED <<events, bookmarks, filters, referenceLocation>>
        /\ FilterFrame

FilterNext ==
    \/ FilterEvents
    \/ CountCategories
    \/ SetTimeFilter
    \/ SetMaxDistance
    \/ SetCategory
    \/ SetReferenceLocation
    \/ ToggleBookmark
    \/ FilterTick

SpecFilter == FilterInit /\ [][FilterNext]_vars

-----------------------------------------------------------------------------
(* Specification of the deduplication *)

DedupeInit ==
    /\ now = ClockBase
    /\ eventItems \in {ItemsOf(evs) : evs \in SeqsUpTo(DedupeEventPool, MaxItems)}
    /\ uniqueItems = <<>>
    /\ titleItems = <<>>
    /\ op = {}
    /\ NoFilterState
    /\ NoBoundaryState
    /\ NoTemplateState
    /\ NoStorageState
    /\ NoDistanceState
    /\ NoDrawerState
    /\ NoDashboardState
    /\ NoDropdownState

DedupeFrame == UNCHANGED <<now, storedEvents, events, bookmarks, filters,
                           referenceLocation, filtered, categoryCounts,
                           eventItems, timeFilter, boundary,
                           templateEvents, processedEvents,
                           localStorage, lastCall,
                           distanceCall,
                           timeDrawer,
                           dashboard,
                           dropdowns>>

DeduplicateEvents ==
    /\ "dedupe" \notin op
    /\ uniqueItems' = deduplicateEvents(eventItems)
    /\ op' = op \cup {"dedupe"}
    /\ UNCHANGED titleItems
    /\ DedupeFrame

DeduplicateEventsByTitle ==
    /\ "dedupeByTitle" \notin op
    /\ titleItems' = deduplicateEventsByTitle(eventItems)
    /\ op' = op \cup {"dedupeByTitle"}
    /\ UNCHANGED uniqueItems
    /\ DedupeFrame

DedupeNext ==
    \/ DeduplicateEvents
    \/ DeduplicateEventsByTitle

SpecDedupe == DedupeInit /\ [][DedupeNext]_vars

-----------------------------------------------------------------------------
(* Specification of the time boundaries *)

BoundaryInit ==
    /\ now \in ClockReadings
    /\ timeFilter = Undefined
    /\ boundary = NoTime
    /\ op = {}
    /\ NoFilterState
    /\ NoDedupeState
    /\ NoTemplateState
    /\ NoStorageState
    /\ NoDistanceState
    /\ NoDrawerState
    /\ NoDashboardState
    /\ NoDropdownState

BoundaryFrame == UNCHANGED <<storedEvents, events, bookmarks, filters,
                             referenceLocation, filtered, categoryCounts,
                             eventItems, uniqueItems, titleItems, op,
                             templateEvents, processedEvents,
                             localStorage, lastCall,
                             distanceCall,
                             timeDrawer,
                             dashboard,
                             dropdowns>>

\* getMaxEventTime reads the clock when it is called: at the reading of the
\* last call, or at the following one when time has passed since
GetMaxEventTime ==
    \E k \in FilterKinds, t \in {now, NextReading(now)} :
        /\ t < ClockEnd
        /\ now' = t
        /\ timeFilter' = k
        /\ boundary' = getMaxEventTime(k, t)
        /\ BoundaryFrame

BoundaryTick ==
    /\ NextReading(now) < ClockEnd
    /\ now' = NextReading(now)
    /\ timeFilter' = Undefined
    /\ boundary' = NoTime
    /\ BoundaryFrame

BoundaryNext ==
    \/ GetMaxEventTime
    \/ BoundaryTick

SpecBoundary == BoundaryInit /\ [][BoundaryNext]_vars

-----------------------------------------------------------------------------
(* Specification of the template processing *)

\* the static times a template carries before it is processed
StaticStart == Timestamp(2026, 1, 2, 12, 0, 0)
StaticEnd == Timestamp(2026, 1, 2, 14, 0, 0)

Plain(id) ==
    [id |-> id, title |-> "Concert", start_time |-> StaticStart, end_time |-> StaticEnd]

Template(id, spec) ==
    [id |-> id, title |-> "[DEMO]", start_time |-> StaticStart,
     end_time |-> StaticEnd, relative_time |-> spec]

TemplatePool ==
    { Plain("p1"),
      Assign(Plain("p2"), "published_at", StaticStart),
      Template("o1", [type |-> "offset", minutes |-> -30, duration_hours |-> 2]),
      Template("o2", [type |-> "offset", hours |-> 1, duration_hours |-> 3]),
      Template("o3", [type |-> "offset", hours |-> 1, minutes |-> 5]),
      Template("o4", [type |-> "offset", minutes |-> 5, duration_hours |-> 0]),
      Template("z1", [type |-> "offset", hours |-> 1, duration_hours |-> 2,
                      timezone_offset |-> TzUnit]),
      Template("z2", [type |-> "offset", timezone_offset |-> 5 * TzUnit + 2]),
      Template("z3", [type |-> "offset", timezone_offset |-> 0 - (5 * TzUnit + 2)]),
      Template("z4", [type |-> "offset", minutes |-> 5, timezone_offset |-> 0]),
      Template("s1", [type |-> "sunrise_relative", start_offset_hours |-> -1,
                      end_offset_hours |-> 2]),
      Template("s2", [type |-> "sunrise_relative", start_offset_minutes |-> 30,
                      end_offset_hours |-> 1, end_offset_minutes |-> 30]),
      Template("s3", [type |-> "sunrise_relative"]),
      Template("u1", [type |-> "weekly", hours |-> 1]),
      Template("u2", [hours |-> 1]) }

\* the clock readings of a page load: early morning, evening, before midnight
TemplateClock ==
    { parseDate(Timestamp(2026, 7, 15, 5, 30, 0)),
      parseDate(Timestamp(2026, 7, 15, 18, 0, 0)),
      parseDate(Timestamp(2026, 7, 15, 23, 45, 30)) }

TemplateInit ==
    /\ now \in TemplateClock
    /\ templateEvents = <<>>
    /\ processedEvents = <<>>
    /\ op = {}
    /\ NoFilterState
    /\ NoDedupeState
    /\ NoBoundaryState
    /\ NoStorageState
    /\ NoDistanceState
    /\ NoDrawerState
    /\ NoDashboardState
    /\ NoDropdownState

TemplateFrame == UNCHANGED <<storedEvents, events, bookmarks, filters,
                             referenceLocation, filtered, categoryCounts,
                             eventItems, uniqueItems, titleItems, op,
                             timeFilter, boundary,
                             localStorage, lastCall,
                             distanceCall,
                             timeDrawer,
                             dashboard,
                             dropdowns>>

\* loadEvents: the events of the page go through processTemplateEvents, once
\* per page load
ProcessTemplateEvents ==
    \E evs \in SeqsUpTo(TemplatePool, MaxTemplates) :
        /\ templateEvents = <<>>
        /\ templateEvents' = evs
        /\ processedEvents' = processTemplateEvents(evs, now)
        /\ UNCHANGED now
        /\ TemplateFrame

\* the page is loaded again at a later reading
TemplateTick ==
    \E t \in TemplateClock :
        /\ t > now
        /\ now' = t
        /\ templateEvents' = <<>>
        /\ processedEvents' = <<>>
        /\ TemplateFrame

TemplateNext ==
    \/ ProcessTemplateEvents
    \/ TemplateTick

SpecTemplate == TemplateInit /\ [][TemplateNext]_vars

-----------------------------------------------------------------------------
(* Specification of the storage: pages that construct an EventStorage over the *)
(* localStorage of the browser and call it                                     *)

\* the ids bookmarked in earlier sessions, oldest first
StoredIds == <<"b01", "b02", "b03", "b04", "b05", "b06", "b07", "b08",
               "b09", "b10", "b11", "b12", "b13", "b14", "b15">>

\* the ids a user toggles: the two oldest stored ones and two others
ToggleIds == {StoredIds[1], StoredIds[2], "n1", "n2"}

\* the localStorage an earlier session left: nothing, or its bookmarks
StoredBefore ==
    {<<>>} \cup {saveBookmarks(<<>>, SubSeq(StoredIds, 1, n)) : n \in 0..MAX_BOOKMARKS}

\* filters objects as the pages hold them; the third has only the fields
\* EventFilter reads
FilterSettings ==
    { [maxDistance |-> Num(5), locationType |-> Str("geolocation"),
       selectedPredefinedLocation |-> Null, useCustomLocation |-> Bool(FALSE),
       customLat |-> Null, customLon |-> Null,
       category |-> Str("music"), timeFilter |-> Str("6h")],
      [maxDistance |-> Num(10), locationType |-> Str("custom"),
       selectedPredefinedLocation |-> Num(0), useCustomLocation |-> Bool(TRUE),
       customLat |-> Num(50), customLon |-> Num(-12),
       category |-> Str("all"), timeFilter |-> Str("sunrise")],
      [maxDistance |-> Num(25), category |-> Str("sports"), timeFilter |-> Str("48h")] }

StorageInit ==
    /\ localStorage \in StoredBefore
    /\ bookmarks = loadBookmarks(localStorage)
    /\ lastCall = [name |-> "constructor", count |-> 0]
    /\ now = ClockBase
    /\ storedEvents = <<>>
    /\ events = <<>>
    /\ filters = [timeFilter |-> "sunrise", maxDistance |-> 0, category |-> "all"]
    /\ referenceLocation = NoLocation
    /\ filtered = <<>>
    /\ categoryCounts = EmptyCounts
    /\ op = {}
    /\ NoDedupeState
    /\ NoBoundaryState
    /\ NoTemplateState
    /\ NoDistanceState
    /\ NoDrawerState
    /\ NoDashboardState
    /\ NoDropdownState

StorageFrame == UNCHANGED <<now, storedEvents, events, filters, referenceLocation,
                            op, filtered, categoryCounts, eventItems, uniqueItems,
                            titleItems, timeFilter, boundary,
                            templateEvents, processedEvents,
                            distanceCall,
                            timeDrawer,
                            dashboard,
                            dropdowns>>

\* the page is loaded again: new EventStorage(config)
Construct ==
    /\ lastCall.count < MaxCalls
    /\ bookmarks' = loadBookmarks(localStorage)
    /\ lastCall' = [name |-> "constructor", count |-> lastCall.count + 1]
    /\ UNCHANGED localStorage
    /\ StorageFrame

StorageToggleBookmark ==
    \E eventId \in ToggleIds :
        /\ lastCall.count < MaxCalls
        /\ bookmarks' = toggleBookmark(bookmarks, eventId)
        /\ localStorage' = saveBookmarks(localStorage, bookmarks')
        /\ lastCall' = [name |-> "toggleBookmark", count |-> lastCall.count + 1,
                        eventId |-> eventId, before |-> bookmarks,
                        returned |-> toggleBookmarkReturns(bookmarks, eventId)]
        /\ StorageFrame

SaveFiltersToCookie ==
    \E flt \in FilterSettings :
        /\ lastCall.count < MaxCalls
        /\ localStorage' = saveFiltersToCookie(localStorage, flt)
        /\ lastCall' = [name |-> "saveFiltersToCookie", count |-> lastCall.count + 1,
                        filters |-> flt]
        /\ UNCHANGED bookmarks
        /\ StorageFrame

LoadFiltersFromCookie ==
    /\ lastCall.count < MaxCalls
    /\ lastCall' = [name |-> "loadFiltersFromCookie", count |-> lastCall.count + 1,
                    returned |-> loadFiltersFromCookie(localStorage)]
    /\ UNCHANGED <<bookmarks, localStorage>>
    /\ StorageFrame

StorageNext ==
    \/ Construct
    \/ StorageToggleBookmark
    \/ SaveFiltersToCookie
    \/ LoadFiltersFromCookie

SpecStorage == StorageInit /\ [][StorageNext]_vars

-----------------------------------------------------------------------------
(* Specification of the distance: calculateDistance between two points of the *)
(* 30-degree grid, asked in both directions                                    *)

GridPoints ==
    {Place(lat, lon) : lat \in {-90, -60, -30, 0, 30, 60, 90},
                       lon \in {-180, -150, -120, -90, -60, -30, 0,
                                30, 60, 90, 120, 150, 180}}

DistanceInit ==
    /\ distanceCall \in [a : GridPoints, b : GridPoints]
    /\ now = ClockBase
    /\ op = {}
    /\ NoFilterState
    /\ NoDedupeState
    /\ NoBoundaryState
    /\ NoTemplateState
    /\ NoStorageState
    /\ NoDrawerState
    /\ NoDashboardState
    /\ NoDropdownState

DistanceFrame == UNCHANGED <<now, storedEvents, events, bookmarks, filters,
                             referenceLocation, op, filtered, categoryCounts,
                             eventItems, uniqueItems, titleItems, timeFilter,
                             boundary, templateEvents, processedEvents,
                             localStorage, lastCall,
                             timeDrawer,
                             dashboard,
                             dropdowns>>

\* calculateDistance(a, b), calculateDistance(b, a) and calculateDistance(a, a)
CalculateDistance ==
    /\ ~Has(distanceCall, "ab")
    /\ distanceCall' =
          [a |-> distanceCall.a, b |-> distanceCall.b,
           ab |-> calculateDistance(distanceCall.a.lat, distanceCall.a.lon,
                                    distanceCall.b.lat, distanceCall.b.lon),
           ba |-> calculateDistance(distanceCall.b.lat, distanceCall.b.lon,
                                    distanceCall.a.lat, distanceCall.a.lon),
           aa |-> calculateDistance(distanceCall.a.lat, distanceCall.a.lon,
                                    distanceCall.a.lat, distanceCall.a.lon)]
    /\ DistanceFrame

DistanceNext == CalculateDistance

SpecDistance == DistanceInit /\ [][DistanceNext]_vars

-----------------------------------------------------------------------------
(* Specification of the time drawer: the page calls enable and disable, and *)
(* the timeouts fire in between                                             *)

\* a call and the timeouts it leaves pending stay within the bounds
WithinDrawerBounds(d) ==
    /\ d.created <= MaxElements
    /\ d.removeDrawerTimeouts <= MaxPending
    /\ d.removeMessageTimeouts <= MaxPending
    /\ d.autoHideTimeouts <= MaxPending

DrawerInit ==
    /\ timeDrawer = newTimeDrawer
    /\ now = ClockBase
    /\ op = {}
    /\ NoFilterState
    /\ NoDedupeState
    /\ NoBoundaryState
    /\ NoTemplateState
    /\ NoStorageState
    /\ NoDistanceState
    /\ NoDashboardState
    /\ NoDropdownState

DrawerFrame == UNCHANGED <<now, storedEvents, events, bookmarks, filters,
                           referenceLocation, op, filtered, categoryCounts,
                           eventItems, uniqueItems, titleItems, timeFilter,
                           boundary, templateEvents, processedEvents,
                           localStorage, lastCall, distanceCall,
                           dashboard,
                           dropdowns>>

Enable ==
    \E filterType \in {"sunrise", "6h"},
       eventCount \in {minEventsThreshold - 1, minEventsThreshold},
       sunriseTime \in {NoTime, getNextSunrise(now)} :
        /\ WithinDrawerBounds(enable(timeDrawer, filterType, eventCount, sunriseTime))
        /\ timeDrawer' = enable(timeDrawer, filterType, eventCount, sunriseTime)
        /\ DrawerFrame

Disable ==
    /\ WithinDrawerBounds(disable(timeDrawer))
    /\ timeDrawer' = disable(timeDrawer)
    /\ DrawerFrame

RemoveDrawerTimeout ==
    /\ timeDrawer.removeDrawerTimeouts > 0
    /\ timeDrawer' = removeDrawerTimeout(timeDrawer)
    /\ DrawerFrame

RemoveMessageTimeout ==
    /\ timeDrawer.removeMessageTimeouts > 0
    /\ timeDrawer' = removeMessageTimeout(timeDrawer)
    /\ DrawerFrame

AutoHideTimeout ==
    /\ timeDrawer.autoHideTimeouts > 0
    /\ WithinDrawerBounds(autoHideTimeout(timeDrawer))
    /\ timeDrawer' = autoHideTimeout(timeDrawer)
    /\ DrawerFrame

DrawerNext ==
    \/ Enable
    \/ Disable
    \/ RemoveDrawerTimeout
    \/ RemoveMessageTimeout
    \/ AutoHideTimeout

SpecDrawer == DrawerInit /\ [][DrawerNext]_vars

-----------------------------------------------------------------------------
(* Specification of the dashboard: clicks and keys call openDashboard and   *)
(* closeDashboard, and each call resumes when the transition it awaits ends *)

DashboardInit ==
    /\ dashboard = newDashboard
    /\ now = ClockBase
    /\ op = {}
    /\ NoFilterState
    /\ NoDedupeState
    /\ NoBoundaryState
    /\ NoTemplateState
    /\ NoStorageState
    /\ NoDistanceState
    /\ NoDrawerState
    /\ NoDropdownState

DashboardFrame == UNCHANGED <<now, storedEvents, events, bookmarks, filters,
                              referenceLocation, op, filtered, categoryCounts,
                              eventItems, uniqueItems, titleItems, timeFilter,
                              boundary, templateEvents, processedEvents,
                              localStorage, lastCall, distanceCall, timeDrawer,
                              dropdowns>>

\* a click, Enter or Space on the logo
OpenDashboard ==
    \E activeElement \in Focusable :
        /\ dashboard.awaitingExpansion < MaxPending
        /\ dashboard' = openDashboard(dashboard, activeElement)
        /\ DashboardFrame

OpenDashboardShow ==
    /\ dashboard.awaitingExpansion > 0
    /\ dashboard.awaitingFade < MaxPending
    /\ dashboard' = openDashboardShow(dashboard)
    /\ DashboardFrame

OpenDashboardTrap ==
    /\ dashboard.awaitingFade > 0
    /\ dashboard' = openDashboardTrap(dashboard)
    /\ DashboardFrame

\* Escape, the close button or a click on the background, each of which
\* reaches closeDashboard only while the menu is not hidden
CloseDashboard ==
    /\ ~dashboard.hidden
    /\ dashboard.awaitingCollapse < MaxPending
    /\ dashboard' = closeDashboard(dashboard)
    /\ DashboardFrame

CloseDashboardFocus ==
    /\ dashboard.awaitingCollapse > 0
    /\ dashboard' = closeDashboardFocus(dashboard)
    /\ DashboardFrame

DashboardNext ==
    \/ OpenDashboard
    \/ OpenDashboardShow
    \/ OpenDashboardTrap
    \/ CloseDashboard
    \/ CloseDashboardFocus

SpecDashboard == DashboardInit /\ [][DashboardNext]_vars

-----------------------------------------------------------------------------
(* Specification of the dropdowns: the user clicks triggers and the items   *)
(* of a list that is shown                                                  *)

DropdownInit ==
    /\ dropdowns = newDropdowns
    /\ now = ClockBase
    /\ op = {}
    /\ NoFilterState
    /\ NoDedupeState
    /\ NoBoundaryState
    /\ NoTemplateState
    /\ NoStorageState
    /\ NoDistanceState
    /\ NoDrawerState
    /\ NoDashboardState

DropdownFrame == UNCHANGED <<now, storedEvents, events, bookmarks, filters,
                             referenceLocation, op, filtered, categoryCounts,
                             eventItems, uniqueItems, titleItems, timeFilter,
                             boundary, templateEvents, processedEvents,
                             localStorage, lastCall, distanceCall, timeDrawer,
                             dashboard>>

TriggerClick ==
    \E name \in DropdownNames :
        /\ triggerClick(dropdowns, name).created <= MaxElements
        /\ dropdowns' = triggerClick(dropdowns, name)
        /\ DropdownFrame

\* an item can be clicked while the list that holds it is in the document
ItemClick ==
    \E name \in DropdownNames, value \in UNION {DropdownItems[n] : n \in DropdownNames} :
        /\ value \in DropdownItems[name]
        /\ dropdowns.instances[name].dropdownEl \in dropdowns.body
        /\ dropdowns' = itemClick(dropdowns, name, value)
        /\ DropdownFrame

DropdownNext ==
    \/ TriggerClick
    \/ ItemClick

SpecDropdown == DropdownInit /\ [][DropdownNext]_vars

-----------------------------------------------------------------------------
(* Properties of filterEvents and countCategoriesUnderFilters (SpecFilter) *)

Range(seq) == {seq[i] : i \in 1..Len(seq)}

\* event object i is in the array filterEvents returned
Returned(i) == i \in Range(filtered)

PassesTemporal(event) ==
    parseDate(event.start_time) <= getMaxEventTime(filters.timeFilter, now)

PassesCategorical(event) ==
    filters.category = "all" \/ event.category = filters.category

BothLocated(event) == Truthy(referenceLocation) /\ Truthy(event.location)

PassesSpatial(event) ==
    BothLocated(event) => eventDistance(event, referenceLocation) <= filters.maxDistance

Bookmarked(event) == isBookmarked(bookmarks, event.id)

\* C1: an event that is not bookmarked is in the output of filterEvents if and
\* only if its start time is at or before the boundary of the time filter, the
\* category setting is "all" or its category, and, when the reference location
\* and the event location both exist, its distance is at most maxDistance.
FilterAppliesThreeGates ==
    "filter" \in op =>
        \A i \in 1..Len(events) :
            ~Bookmarked(events[i]) =>
                (Returned(i) <=> /\ PassesTemporal(events[i])
                                 /\ PassesCategorical(events[i])
                                 /\ PassesSpatial(events[i]))

\* an unbookmarked event exactly on the time boundary and exactly at the
\* maximum distance is returned, next to one that is rejected
FilterGatesWitness ==
    /\ "filter" \in op
    /\ \E i \in 1..Len(events) :
        /\ ~Bookmarked(events[i])
        /\ Returned(i)
        /\ parseDate(events[i].start_time) = getMaxEventTime(filters.timeFilter, now)
        /\ filters.category = events[i].category
        /\ BothLocated(events[i])
        /\ eventDistance(events[i], referenceLocation) = filters.maxDistance
    /\ \E j \in 1..Len(events) : ~Bookmarked(events[j]) /\ ~Returned(j)

\* C2: every bookmarked event is in the output of filterEvents, whatever its
\* category, start time or distance.
BookmarkedAlwaysReturned ==
    "filter" \in op =>
        \A i \in 1..Len(events) : Bookmarked(events[i]) => Returned(i)

\* a bookmarked event that fails all three gates is returned
BookmarkedWitness ==
    /\ "filter" \in op
    /\ \E i \in 1..Len(events) :
        /\ Bookmarked(events[i])
        /\ Returned(i)
        /\ ~PassesTemporal(events[i])
        /\ ~PassesCategorical(events[i])
        /\ ~PassesSpatial(events[i])

\* C3: when the reference location is absent or the event has no location,
\* the event is in the output exactly when it is bookmarked or passes the
\* temporal and the categorical gate, for every maxDistance.
MissingLocationSkipsSpatialGate ==
    "filter" \in op =>
        \A i \in 1..Len(events) :
            ~BothLocated(events[i]) =>
                (Returned(i) <=> \/ Bookmarked(events[i])
                                 \/ /\ PassesTemporal(events[i])
                                    /\ PassesCategorical(events[i]))

\* with a reference location present, an unbookmarked event without a
\* location is returned
MissingLocationWitness ==
    /\ "filter" \in op
    /\ Truthy(referenceLocation)
    /\ \E i \in 1..Len(events) :
        /\ ~Truthy(events[i].location)
        /\ ~Bookmarked(events[i])
        /\ Returned(i)

\* C4: after any call of filterEvents or countCategoriesUnderFilters every
\* event record of the caller's list is as it was supplied; in particular it
\* carries no new or changed distance.
InputNeverMutated == events = storedEvents

\* the records filterEvents returned: the referenced event objects
ReturnedRecords == [j \in 1..Len(filtered) |-> events[filtered[j]]]

\* the records filterEvents returns for the list as supplied
FreshRecords ==
    LET r == filterEvents(storedEvents, filters, referenceLocation, bookmarks, now)
    IN [j \in 1..Len(r.filtered) |-> r.events[r.filtered[j]]]

\* C5: filterEvents called with the same events, settings, reference location,
\* bookmarks and clock reading returns the same records, distance included,
\* whatever passes ran before on the same event list.
FilterResultIndependentOfHistory ==
    "filter" \in op => ReturnedRecords = FreshRecords

RECURSIVE SumOver(_, _)
SumOver(f, keys) ==
    IF keys = {} THEN 0
    ELSE LET k == CHOOSE x \in keys : TRUE
         IN f[k] + SumOver(f, keys \ {k})

\* C6: the counts of countCategoriesUnderFilters sum to the number of events
\* filterEvents returns under category "all" and otherwise the same arguments.
CountsSumToFilterSize ==
    ({"filter", "count"} \subseteq op /\ filters.category = "all") =>
        SumOver(categoryCounts, DOMAIN categoryCounts) = Len(filtered)

\* two categories are counted, one of them only through a bookmarked event
\* that fails the time gate
CountsWitness ==
    /\ {"filter", "count"} \subseteq op
    /\ filters.category = "all"
    /\ Len(filtered) = 2
    /\ Cardinality(DOMAIN categoryCounts) = 2
    /\ \E i \in 1..Len(events) : Bookmarked(events[i]) /\ ~PassesTemporal(events[i])

\* the category an event counts under: its own, 'uncategorized' without one
CountedCategory(event) ==
    IF event.category = Undefined THEN "uncategorized" ELSE event.category

\* C24: the count of a category X equals the number of events of category X
\* that filterEvents returns under category X and otherwise the same
\* arguments, also for X = 'uncategorized' and the events without a category.
CountMatchesCategoryFilter ==
    (/\ {"filter", "count"} \subseteq op
     /\ filters.category \in DOMAIN categoryCounts) =>
        categoryCounts[filters.category] =
            Cardinality({i \in Range(filtered) :
                            CountedCategory(events[i]) = filters.category})

-----------------------------------------------------------------------------
(* Properties of deduplicateEvents (SpecDedupe) *)

ItemRefs == 1..Len(eventItems)

\* the places at which event object i is listed among the duplicates
Memberships(i) ==
    {<<g, j>> \in (1..Len(uniqueItems)) \X ItemRefs :
        j <= Len(uniqueItems[g].duplicates) /\ uniqueItems[g].duplicates[j] = i}

RECURSIVE SumCounts(_, _)
SumCounts(items, n) ==
    IF n = 0 THEN 0 ELSE items[n].duplicateCount + SumCounts(items, n - 1)

\* C7: the groups partition the input: every input event is listed in exactly
\* one group, exactly once, no group lists anything else, and the counts sum to
\* the number of input events.
DedupePartitionsInput ==
    /\ "dedupe" \in op =>
        /\ \A i \in ItemRefs : Cardinality(Memberships(i)) = 1
        /\ \A g \in 1..Len(uniqueItems) : Range(uniqueItems[g].duplicates) \subseteq ItemRefs
        /\ SumCounts(uniqueItems, Len(uniqueItems)) = Len(eventItems)
    /\ "dedupeByTitle" \in op =>
        SumCounts(titleItems, Len(titleItems)) = Len(eventItems)

\* three input events fall into two groups
DedupePartitionWitness ==
    /\ {"dedupe", "dedupeByTitle"} \subseteq op
    /\ Len(eventItems) = 3
    /\ Len(uniqueItems) = 2
    /\ Len(titleItems) = 2

SameGroup(i, j) ==
    \E g \in 1..Len(uniqueItems) : {i, j} \subseteq Range(uniqueItems[g].duplicates)

EventAt(i) == eventItems[i].event

NormalizedTitle(event) == trim(toLowerCase(event.title))

\* the identity key of the specification: the identifier when present, else
\* normalized title, start time and coordinates
IdentityKey(event) ==
    IF event.id # Undefined
    THEN <<"id", event.id>>
    ELSE <<"fields", NormalizedTitle(event), event.start_time,
           event.location.lat, event.location.lon>>

Alike(i) ==
    {j \in ItemRefs :
        /\ NormalizedTitle(EventAt(j)) = NormalizedTitle(EventAt(i))
        /\ EventAt(j).start_time = EventAt(i).start_time}

Ascending(seq) == \A a, b \in 1..Len(seq) : a < b => seq[a] < seq[b]

\* C9: in every group the representative is the first input event with the
\* group's key, the members are exactly the input events with that key in
\* input order, and the count is the number of members.
RepresentativeIsFirstSeen ==
    "dedupe" \in op =>
        \A g \in 1..Len(uniqueItems) :
            LET group == uniqueItems[g]
            IN /\ group.event \in ItemRefs
               /\ \A j \in Alike(group.event) : group.event <= j
               /\ Range(group.duplicates) = Alike(group.event)
               /\ Ascending(group.duplicates)
               /\ group.duplicateCount = Len(group.duplicates)
               /\ group.originalIndex = eventItems[group.event].originalIndex

\* a group whose members are the first and the third input event, which
\* differ as records
RepresentativeWitness ==
    /\ "dedupe" \in op
    /\ Len(eventItems) = 3
    /\ \E g \in 1..Len(uniqueItems) :
        /\ uniqueItems[g].event = 1
        /\ uniqueItems[g].duplicates = <<1, 3>>
        /\ EventAt(1) # EventAt(3)

-----------------------------------------------------------------------------
(* Properties of the time boundaries (SpecBoundary) *)

\* C10: the sunrise boundary is 06:00:00 of the local calendar day of the
\* clock reading when its local hour is below 6, and 06:00:00 of the following
\* day otherwise.
SunriseBoundary ==
    timeFilter = "sunrise" =>
        /\ getHours(boundary) = 6
        /\ getMinutes(boundary) = 0
        /\ getSeconds(boundary) = 0
        /\ LocalDay(boundary) =
              LocalDay(now) + (IF getHours(now) < 6 THEN 0 ELSE 1)

\* read at 06:00:00 exactly, the boundary is 06:00:00 of the next day
SunriseWitness ==
    /\ timeFilter = "sunrise"
    /\ getHours(now) = 6 /\ getMinutes(now) = 0 /\ getSeconds(now) = 0
    /\ boundary = now + SecPerDay

\* 00:00:00 local of the calendar day numbered day
Midnight(day) == day * SecPerDay - TzOffsetSec

\* days from the clock reading t to the Sunday the sunday-primetime rule selects
DaysToSelectedSunday(t) ==
    IF getDay(t) # 0 THEN 7 - getDay(t)
    ELSE IF getHours(t) * 60 + getMinutes(t) < 1215 THEN 0
    ELSE 7

\* C11: the sunday-primetime boundary is a Sunday at 20:15:00 local: the day of
\* the clock reading when that is a Sunday with hour*60+minute < 1215, seven
\* days later when it is a Sunday with hour*60+minute >= 1215, and
\* (7 - weekday) days later on any other weekday (0 = Sunday).
SundayPrimetimeBoundary ==
    timeFilter = "sunday-primetime" =>
        /\ getDay(boundary) = 0
        /\ getHours(boundary) = 20
        /\ getMinutes(boundary) = 15
        /\ getSeconds(boundary) = 0
        /\ LocalDay(boundary) = LocalDay(now) + DaysToSelectedSunday(now)

\* read on a Sunday at 20:15:00 exactly, the boundary is one week later
SundayPrimetimeWitness ==
    /\ timeFilter = "sunday-primetime"
    /\ getDay(now) = 0
    /\ getHours(now) = 20 /\ getMinutes(now) = 15 /\ getSeconds(now) = 0
    /\ boundary = now + 7 * SecPerDay

\* the multiples k of the synodic month that can matter to a clock reading of
\* the specification
MoonCycles ==
    ((ClockBase - knownFullMoon) \div (LunarCycleWhole + 1) - 1)
        .. ((ClockEnd - knownFullMoon) \div LunarCycleWhole + 3)

\* knownFullMoon + k * lunarCycle is strictly later than the whole second t
StrictlyLater(k, t) ==
    \/ fullMoonAt(k) > t
    \/ fullMoonAt(k) = t /\ (LunarCycleNinths * k) % 9 # 0

\* the k of the earliest full moon strictly later than t
EarliestCycleAfter(t) ==
    CHOOSE k \in MoonCycles :
        /\ StrictlyLater(k, t)
        /\ \A j \in MoonCycles : StrictlyLater(j, t) => k <= j

\* 00:00 of the Sunday selected for the clock reading t
SelectedSundayMidnight(t) == Midnight(LocalDay(t) + DaysToSelectedSunday(t))

FullMoonMonotone ==
    [][(timeFilter = "full-moon" /\ timeFilter' = "full-moon" /\ now <= now')
          => boundary <= boundary']_vars

\* the full-moon boundary has moved on from the one of the first clock reading
FullMoonMonotoneWitness ==
    /\ timeFilter = "full-moon"
    /\ now > ClockBase
    /\ boundary > Midnight(LocalDay(fullMoonAt(EarliestCycleAfter(
                      SelectedSundayMidnight(ClockBase)))) + 1) + 6 * SecPerHour

\* C14: for a kind outside {sunrise, sunday-primetime, full-moon, 6h, 12h, 24h,
\* 48h, all} the boundary is the sunrise boundary of the same clock reading:
\* 06:00:00 of that day below hour 6, of the following day otherwise.
UnknownKindIsSunrise ==
    (timeFilter # Undefined /\ timeFilter \notin TimeFilterKinds) =>
        boundary = Midnight(LocalDay(now) + (IF getHours(now) < 6 THEN 0 ELSE 1))
                      + 6 * SecPerHour

\* an unknown kind asked late in the evening yields the next morning
UnknownKindWitness ==
    /\ timeFilter = UnknownKind
    /\ getHours(now) = 23
    /\ boundary = Midnight(LocalDay(now) + 1) + 6 * SecPerHour

\* C25: for every kind, named or unknown, the boundary is strictly later than
\* the clock reading, so the temporal gate (start time > boundary rejects)
\* lets pass an event that starts at the clock reading or a day before it.
BoundaryAfterNow ==
    timeFilter # Undefined =>
        /\ boundary > now
        /\ \A start \in {now, now - SecPerDay} :
              ~(parseDate(formatDateTime(start)) > boundary)

\* late on a Sunday evening the sunday-primetime boundary lies in the next week
BoundaryAfterNowWitness ==
    /\ timeFilter = "sunday-primetime"
    /\ getDay(now) = 0
    /\ getHours(now) = 23
    /\ boundary > now + 6 * SecPerDay

\* <<narrower, wider>> kinds of time filter
NestedKinds ==
    { <<"6h", "12h">>, <<"12h", "24h">>, <<"24h", "48h">>, <<"48h", "all">>,
      <<"sunrise", "24h">>, <<"sunday-primetime", "full-moon">> }

-----------------------------------------------------------------------------
(* Properties of processTemplateEvents (SpecTemplate) *)

Positions == 1..Len(templateEvents)

\* the input at position i is a template of one of the given types
TemplateOf(i, types) ==
    /\ Has(templateEvents[i], "relative_time")
    /\ Get(templateEvents[i].relative_time, "type") \in types

\* the field of the spec at position i, zero when the spec leaves it out
SpecField(i, field) ==
    IF Has(templateEvents[i].relative_time, field)
    THEN templateEvents[i].relative_time[field]
    ELSE 0

\* the instant whose local date and time of day a serialized timestamp shows
LocalInstant(ts) ==
    Midnight(DaysFromCivil(ts.year, ts.month, ts.day))
        + ts.hour * SecPerHour + ts.minute * SecPerMin + ts.second

\* C15: an offset spec yields start = now + hours + minutes (each 0 when left
\* out) and end = start + durationHours for every supplied durationHours, with
\* the 2-hour duration only when durationHours is left out.
OffsetTimes ==
    \A i \in Positions :
        TemplateOf(i, {"offset"}) =>
            LET spec == templateEvents[i].relative_time
                start == now + SpecField(i, "hours") * SecPerHour
                             + SpecField(i, "minutes") * SecPerMin
                durationHours ==
                    IF Has(spec, "duration_hours") THEN spec.duration_hours ELSE 2
            IN /\ LocalInstant(processedEvents[i].start_time) = start
               /\ LocalInstant(processedEvents[i].end_time)
                     = start + durationHours * SecPerHour

\* C16: a sunrise_relative spec yields start = S + startOffsetHours +
\* startOffsetMinutes and end = S + endOffsetHours + endOffsetMinutes, S the
\* sunrise boundary of the same clock reading, each offset 0 when left out.
SunriseRelativeTimes ==
    \A i \in Positions :
        TemplateOf(i, {"sunrise_relative"}) =>
            LET S == Midnight(LocalDay(now) + (IF getHours(now) < 6 THEN 0 ELSE 1))
                        + 6 * SecPerHour
            IN /\ S = getMaxEventTime("sunrise", now)
               /\ LocalInstant(processedEvents[i].start_time)
                     = S + SpecField(i, "start_offset_hours") * SecPerHour
                         + SpecField(i, "start_offset_minutes") * SecPerMin
               /\ LocalInstant(processedEvents[i].end_time)
                     = S + SpecField(i, "end_offset_hours") * SecPerHour
                         + SpecField(i, "end_offset_minutes") * SecPerMin

\* a template with a start offset of 30 minutes and an end offset of 1 hour 30,
\* processed in the evening: it runs from 06:30 to 07:30 of the next day
SunriseRelativeWitness ==
    \E i \in Positions :
        /\ TemplateOf(i, {"sunrise_relative"})
        /\ SpecField(i, "start_offset_minutes") = 30
        /\ SpecField(i, "end_offset_hours") = 1
        /\ getHours(now) = 18
        /\ processedEvents[i].start_time = Timestamp(2026, 7, 16, 6, 30, 0)
        /\ processedEvents[i].end_time = Timestamp(2026, 7, 16, 7, 30, 0)

\* C17: a spec of unknown or missing type is treated as an offset spec with
\* zero offsets: start = now and end = now + 2 hours.
UnknownTypeFallsBack ==
    \A i \in Positions :
        (/\ Has(templateEvents[i], "relative_time")
         /\ ~TemplateOf(i, {"offset", "sunrise_relative"})) =>
            /\ LocalInstant(processedEvents[i].start_time) = now
            /\ LocalInstant(processedEvents[i].end_time) = now + 2 * SecPerHour

\* C18 as stated: no output event carries a relative_time, and the output for
\* an input that had one carries published_at = now.
SpecFieldRemoved ==
    \A i \in Positions :
        /\ ~Has(processedEvents[i], "relative_time")
        /\ Has(templateEvents[i], "relative_time") =>
              /\ Has(processedEvents[i], "published_at")
              /\ LocalInstant(processedEvents[i].published_at) = now

\* C18: an output event carries a relative_time exactly when its input event
\* had one, and then the input's own, unchanged; the output for an input that
\* had one carries published_at = now.
SpecFieldRetained ==
    \A i \in Positions :
        /\ Has(processedEvents[i], "relative_time")
              <=> Has(templateEvents[i], "relative_time")
        /\ Has(templateEvents[i], "relative_time") =>
              /\ processedEvents[i].relative_time = templateEvents[i].relative_time
              /\ Has(processedEvents[i], "published_at")
              /\ LocalInstant(processedEvents[i].published_at) = now

\* a processed offset template with fresh times, its spec still in place
SpecFieldWitness ==
    \E i \in Positions :
        /\ TemplateOf(i, {"offset"})
        /\ processedEvents[i].start_time # templateEvents[i].start_time
        /\ Has(processedEvents[i], "relative_time")
        /\ processedEvents[i].published_at = formatDateTime(now)

\* C19: the output has the length and order of the input, and an input event
\* without relative_time is at the same position of the output with no field
\* added, removed or changed (no published_at stamp in particular).
PlainEventsUnchanged ==
    /\ Len(processedEvents) = Len(templateEvents)
    /\ \A i \in Positions :
        /\ processedEvents[i].id = templateEvents[i].id
        /\ ~Has(templateEvents[i], "relative_time") =>
              /\ DOMAIN processedEvents[i] = DOMAIN templateEvents[i]
              /\ \A f \in DOMAIN templateEvents[i] :
                    processedEvents[i][f] = templateEvents[i][f]

\* a template followed by a plain event: the plain event comes out as it went
\* in, behind the processed template
PlainEventsWitness ==
    /\ Len(templateEvents) = 2
    /\ Has(templateEvents[1], "relative_time")
    /\ processedEvents[1] # templateEvents[1]
    /\ ~Has(templateEvents[2], "relative_time")
    /\ processedEvents[2] = templateEvents[2]

\* the two characters of a number below 100
TwoDigits(n) == <<Digits[n \div 10 + 1], Digits[(n % 10) + 1]>>

\* sign(t)HH:MM for an offset of t quarters of an hour: HH the whole hours of
\* |t|, MM the minutes of its fraction
Suffix(t) ==
    <<IF t > 0 THEN "+" ELSE "-">> \o TwoDigits(abs(t) \div TzUnit)
        \o <<":">> \o TwoDigits(((abs(t) % TzUnit) * 60) \div TzUnit)

\* C20: an offset spec with non-zero timezoneOffset t has start and end
\* serialized with the suffix sign(t)HH:MM, HH the whole-hour part of |t| and
\* MM 60 times its fractional part, for either sign; with t = 0 or left out
\* there is no suffix.
TimezoneSuffix ==
    \A i \in Positions :
        TemplateOf(i, {"offset"}) =>
            LET t == SpecField(i, "timezone_offset")
                startTime == processedEvents[i].start_time
                endTime == processedEvents[i].end_time
            IN IF t = 0
               THEN ~Has(startTime, "tz") /\ ~Has(endTime, "tz")
               ELSE /\ Has(startTime, "tz") /\ startTime.tz = Suffix(t)
                    /\ Has(endTime, "tz") /\ endTime.tz = Suffix(t)

-----------------------------------------------------------------------------
(* Properties of EventStorage (SpecStorage) *)

Toggled == lastCall.name = "toggleBookmark"

\* C21: the store never holds more than 15 bookmarked ids nor an id twice, and
\* adding a new id when 15 are held removes exactly the oldest bookmark and
\* keeps the other 14 in their order, the new id last.
BookmarkLimit ==
    /\ Len(bookmarks) <= 15
    /\ \A i, j \in 1..Len(bookmarks) : bookmarks[i] = bookmarks[j] => i = j
    /\ (/\ Toggled
        /\ Len(lastCall.before) = 15
        /\ \A i \in 1..15 : lastCall.before[i] # lastCall.eventId) =>
            /\ Len(bookmarks) = 15
            /\ \A i \in 1..14 : bookmarks[i] = lastCall.before[i + 1]
            /\ bookmarks[15] = lastCall.eventId

\* a sixteenth id was bookmarked: the oldest id is gone, the second oldest leads
BookmarkLimitWitness ==
    /\ Toggled
    /\ lastCall.eventId = "n1"
    /\ lastCall.before = StoredIds
    /\ lastCall.returned
    /\ bookmarks[1] = StoredIds[2]
    /\ bookmarks[15] = "n1"

\* the saved value of a field and the loaded one are equal, or both undefined
SameField(saved, loaded, field) ==
    IF Has(saved, field)
    THEN Has(loaded, field) /\ loaded[field] = saved[field]
    ELSE ~Has(loaded, field)

ToggleTwiceRestores ==
    [][(/\ Toggled
        /\ lastCall'.name = "toggleBookmark"
        /\ lastCall'.count = lastCall.count + 1
        /\ lastCall'.eventId = lastCall.eventId) =>
          /\ Range(bookmarks') = Range(lastCall.before)
          /\ lastCall'.returned = ~lastCall.returned]_vars

-----------------------------------------------------------------------------
(* Properties of calculateDistance (SpecDistance) *)

\* C23: the distance from A to B equals the distance from B to A, the distance
\* from A to A is 0, and no distance is negative.
DistanceSymmetric ==
    Has(distanceCall, "ab") =>
        /\ distanceCall.ab = distanceCall.ba
        /\ distanceCall.aa = 0
        /\ distanceCall.ab >= 0

\* two points that differ in latitude and in longitude, neither on the equator
\* nor at a pole, a positive distance apart in either direction
DistanceWitness ==
    /\ Has(distanceCall, "ab")
    /\ distanceCall.a = Place(30, 0)
    /\ distanceCall.b = Place(60, 90)
    /\ distanceCall.ab > 0
    /\ distanceCall.ba = distanceCall.ab

-----------------------------------------------------------------------------
(* Properties of TimeDrawer (SpecDrawer) *)

\* C28: while enabled is true the drawer element is referenced and attached:
\* no delayed cleanup of an earlier removeDrawerUI removes or nulls the drawer
\* that a later enable() created.
EnabledDrawerAttached ==
    timeDrawer.enabled =>
        /\ timeDrawer.drawerElement # NoElement
        /\ timeDrawer.drawerElement \in timeDrawer.body

-----------------------------------------------------------------------------
(* Properties of the dashboard (SpecDashboard) *)

\* C29: whenever no openDashboard or closeDashboard call is still awaiting and
\* the dashboard menu is hidden, the focus-trap keydown listener is not
\* registered on document.
TrapOnlyWhileVisible ==
    (/\ dashboard.awaitingExpansion = 0
     /\ dashboard.awaitingFade = 0
     /\ dashboard.awaitingCollapse = 0
     /\ dashboard.hidden)
        => ~dashboard.trapRegistered

-----------------------------------------------------------------------------
(* Properties of CustomDropdown (SpecDropdown) *)

\* the list of the instance is an element of the document
Shown(name) ==
    /\ dropdowns.instances[name].dropdownEl # NoElement
    /\ dropdowns.instances[name].dropdownEl \in dropdowns.body

\* C30: the isOpen flag of each instance is true exactly when its own dropdown
\* element is in the document, and at most one instance is open.
OpenIffShown ==
    /\ \A name \in DropdownNames : dropdowns.instances[name].isOpen <=> Shown(name)
    /\ Cardinality({name \in DropdownNames : dropdowns.instances[name].isOpen}) <= 1

====
